---- MODULE Spec2Model ----
(***************************************************************************)
(* A model of mcp-sequential-thinking: the project-scoped thought store    *)
(* (storage.py), the record type and its codec (models.py) and the         *)
(* serialization helper storage_utils, which storage.py imports and whose  *)
(* behaviour is taken from section 4.2 of the specification.               *)
(*                                                                         *)
(* Python objects are modelled with identity: a ThoughtData instance is an *)
(* address into heap, a list is an identifier into lists.  None and the    *)
(* empty string are both the empty sequence (the code tests them with      *)
(* `not x` / `x or y` only).                                               *)
(***************************************************************************)
EXTENDS Integers, Sequences, FiniteSets, TLC

(***************************************************************************)
(* Bounds of the model.                                                     *)
(***************************************************************************)
NumStores == 2      \* store instances (processes) sharing one storage directory
NumThreads == 2     \* caller threads of one store instance
MaxCalls == 2       \* steps callers take in one behaviour: operations they invoke and
                    \* in-place changes they make to values they were handed

(***************************************************************************)
(* Small helpers.                                                           *)
(***************************************************************************)
Range(f) == {f[i] : i \in DOMAIN f}

(***************************************************************************)
(* Strings.  Text values are TLA+ strings; str.strip() and str.lower() are  *)
(* tabulated on the strings the model uses (every other string of the       *)
(* model is already stripped and lower-case).                               *)
(***************************************************************************)
StrStrip(s) ==
    CASE s = " " -> ""
      [] s = " QA " -> "QA"
      [] s = " Review" -> "Review"
      [] OTHER -> s

StrLower(s) ==
    CASE s = "Scoping" -> "scoping"
      [] s = "Research & Spike" -> "research & spike"
      [] s = "Implementation" -> "implementation"
      [] s = "Testing" -> "testing"
      [] s = "Review" -> "review"
      [] s = "REVIEW" -> "review"
      [] s = "Planning" -> "planning"
      [] s = "QA" -> "qa"
      [] s = "HIGH" -> "high"
      [] s = "Medium" -> "medium"
      [] OTHER -> s

(***************************************************************************)
(* models.py: ThoughtStage, RiskLevel.                                      *)
(***************************************************************************)
ThoughtStage == {"SCOPING", "RESEARCH_SPIKE", "IMPLEMENTATION", "TESTING", "REVIEW"}

\* declaration order of the enum members
StageOrder == <<"SCOPING", "RESEARCH_SPIKE", "IMPLEMENTATION", "TESTING", "REVIEW">>

StageValue(stage) ==
    CASE stage = "SCOPING" -> "Scoping"
      [] stage = "RESEARCH_SPIKE" -> "Research & Spike"
      [] stage = "IMPLEMENTATION" -> "Implementation"
      [] stage = "TESTING" -> "Testing"
      [] stage = "REVIEW" -> "Review"

synonyms(stage) ==
    CASE stage = "SCOPING" ->
            {"scoping", "scope", "requirements", "planning (scope)", "project scoping"}
      [] stage = "RESEARCH_SPIKE" ->
            {"research & spike", "research", "spike", "spike/research", "investigate", "r&d"}
      [] stage = "IMPLEMENTATION" ->
            {"implementation", "implement", "build", "coding", "develop", "development",
             "plan", "planning"}
      [] stage = "TESTING" ->
            {"testing", "test", "qa", "validate", "verification"}
      [] stage = "REVIEW" ->
            {"review", "code review", "finalize", "ship", "pr review"}

ValueError == [error |-> "ValueError"]

\* the first member, in declaration order, among hits
FirstStage(hits) ==
    StageOrder[CHOOSE i \in 1..Len(StageOrder) :
                  /\ StageOrder[i] \in hits
                  /\ \A j \in 1..(i - 1) : StageOrder[j] \notin hits]

\* from_string comparing the value as given, not trimmed
from_stringNoStrip(value) ==
    IF value = "" THEN [stage |-> "IMPLEMENTATION"]
    ELSE LET normalized == StrLower(value)
             direct == {st \in ThoughtStage : StrLower(StageValue(st)) = normalized}
             alias == {st \in ThoughtStage : normalized \in synonyms(st)}
         IN  IF direct # {} THEN [stage |-> FirstStage(direct)]
             ELSE IF alias # {} THEN [stage |-> FirstStage(alias)]
             ELSE ValueError

from_string(value) ==
    IF value = "" THEN [stage |-> "IMPLEMENTATION"]
    ELSE LET normalized == StrLower(StrStrip(value))
             Direct(st) == StrLower(StageValue(st)) = normalized
             Alias(st) == normalized \in synonyms(st)
             direct == {st \in ThoughtStage : Direct(st)}
             alias == {st \in ThoughtStage : Alias(st)}
         IN  IF direct # {} THEN [stage |-> FirstStage(direct)]
             ELSE IF alias # {} THEN [stage |-> FirstStage(alias)]
             ELSE ValueError

RiskLevel == {"low", "medium", "high"}

\* RiskLevel(value): the member with that value, else ValueError
RiskLevelOf(value) == IF value \in RiskLevel THEN [risk |-> value] ELSE ValueError

(***************************************************************************)
(* models.py: ThoughtData.  confidence_score is kept in tenths.             *)
(***************************************************************************)
ConfidenceUnit == 10

ValidationError == [error |-> "ValidationError"]

Fields == {"thought", "thought_number", "total_thoughts", "next_thought_needed", "stage",
           "tags", "axioms_used", "assumptions_challenged", "files_touched",
           "tests_to_run", "risk_level", "dependencies", "confidence_score",
           "timestamp", "id"}

thought_not_empty(v) == ~(v = "" \/ StrStrip(v) = "")

thought_number_positive(v) == ~(v < 1)

\* the validator comparing with nothing
total_thoughts_validNever(v, thought_number) == TRUE

total_thoughts_valid(v, thought_number) == ~(v < thought_number)

confidence_in_range(value) == 0 <= value /\ value <= ConfidenceUnit

\* ThoughtData(**kw): the validated instance, or the validation error
ThoughtData(kw) ==
    IF /\ thought_not_empty(kw.thought)
       /\ thought_number_positive(kw.thought_number)
       /\ total_thoughts_valid(kw.total_thoughts, kw.thought_number)
       /\ confidence_in_range(kw.confidence_score)
    THEN kw
    ELSE ValidationError

IsError(x) == "error" \in DOMAIN x

\* str(uuid) and UUID(text)
StrOfUuid(u) == <<"uuid", u>>
UuidOfStr(s) == s[2]

\* to_dict leaving the tags out
to_dictNoTags(self, include_id) ==
    [thought |-> self.thought,
     thoughtNumber |-> self.thought_number,
     totalThoughts |-> self.total_thoughts,
     nextThoughtNeeded |-> self.next_thought_needed,
     stage |-> StageValue(self.stage),
     axiomsUsed |-> self.axioms_used,
     assumptionsChallenged |-> self.assumptions_challenged,
     filesTouched |-> self.files_touched,
     testsToRun |-> self.tests_to_run,
     riskLevel |-> self.risk_level,
     dependencies |-> self.dependencies,
     confidenceScore |-> self.confidence_score,
     timestamp |-> self.timestamp,
     id |-> StrOfUuid(self.id)]

to_dict(self, include_id) ==
    LET result ==
          [thought |-> self.thought,
           thoughtNumber |-> self.thought_number,
           totalThoughts |-> self.total_thoughts,
           nextThoughtNeeded |-> self.next_thought_needed,
           stage |-> StageValue(self.stage),
           tags |-> self.tags,
           axiomsUsed |-> self.axioms_used,
           assumptionsChallenged |-> self.assumptions_challenged,
           filesTouched |-> self.files_touched,
           testsToRun |-> self.tests_to_run,
           riskLevel |-> self.risk_level,
           dependencies |-> self.dependencies,
           confidenceScore |-> self.confidence_score,
           timestamp |-> self.timestamp]
    IN  IF include_id THEN result @@ [id |-> StrOfUuid(self.id)] ELSE result

\* data[key] if present, else dflt
DictGet(data, key, dflt) == IF key \in DOMAIN data THEN data[key] ELSE dflt

RequiredKeys == {"thought", "thoughtNumber", "totalThoughts", "nextThoughtNeeded", "stage"}

\* from_dict(data); uuid4 and now are the values uuid4() and datetime.now() give
from_dict(data, uuid4, now) ==
    IF ~(RequiredKeys \subseteq DOMAIN data) THEN ValidationError
    ELSE
    LET stage == from_string(data.stage)
        risk == IF "riskLevel" \in DOMAIN data
                THEN RiskLevelOf(StrLower(data.riskLevel))
                ELSE [risk |-> "medium"]
    IN  IF IsError(stage) THEN ValueError
        ELSE IF IsError(risk) THEN ValueError
        ELSE ThoughtData(
               [thought |-> data.thought,
                thought_number |-> data.thoughtNumber,
                total_thoughts |-> data.totalThoughts,
                next_thought_needed |-> data.nextThoughtNeeded,
                stage |-> stage.stage,
                tags |-> DictGet(data, "tags", <<>>),
                axioms_used |-> DictGet(data, "axiomsUsed", <<>>),
                assumptions_challenged |-> DictGet(data, "assumptionsChallenged", <<>>),
                files_touched |-> DictGet(data, "filesTouched", <<>>),
                tests_to_run |-> DictGet(data, "testsToRun", <<>>),
                risk_level |-> risk.risk,
                dependencies |-> DictGet(data, "dependencies", <<>>),
                confidence_score |-> DictGet(data, "confidenceScore", ConfidenceUnit \div 2),
                timestamp |-> DictGet(data, "timestamp", now),
                id |-> IF "id" \in DOMAIN data THEN UuidOfStr(data.id) ELSE uuid4])

(***************************************************************************)
(* storage.py: project identifiers and the paths derived from them.         *)
(* A project id is a sequence of one-character strings.                     *)
(***************************************************************************)
Whitespace == {" "}

\* the characters of [a-zA-Z0-9._-] among those the model uses
SafeChars == {"a", "b", "c", "d", "e", "f", "l", "t", "u", "_", ".", "-"}

DefaultName == <<"d", "e", "f", "a", "u", "l", "t">>

RECURSIVE LStrip(_)
LStrip(x) == IF x # <<>> /\ Head(x) \in Whitespace THEN LStrip(Tail(x)) ELSE x

RECURSIVE RStrip(_)
RStrip(x) ==
    IF x # <<>> /\ x[Len(x)] \in Whitespace THEN RStrip(SubSeq(x, 1, Len(x) - 1)) ELSE x

\* str.strip() on character sequences
Strip(x) == RStrip(LStrip(x))

\* re.sub(r"[^a-zA-Z0-9._-]", "_", x)
ReSub(x) == [i \in 1..Len(x) |-> IF x[i] \in SafeChars THEN x[i] ELSE "_"]

\* the sanitizer without the .strip()
_sanitize_project_idNoStrip(project_id) ==
    IF project_id = <<>> THEN DefaultName
    ELSE LET cleaned == ReSub(project_id)
         IN  IF cleaned = <<>> THEN DefaultName ELSE cleaned

_sanitize_project_id(project_id) ==
    IF project_id = <<>> THEN DefaultName
    ELSE LET cleaned == ReSub(Strip(project_id))
         IN  IF cleaned = <<>> THEN DefaultName ELSE cleaned

\* a path is a stem and a suffix; Path.with_suffix replaces the suffix
with_suffix(path, suffix) == [path EXCEPT !.suffix = suffix]

\* self.storage_dir: the store instances of the model share one directory
storage_dir(s) == <<"shared">>

\* one session file for all projects
_session_file_forAll(s, project_id) ==
    [dir |-> storage_dir(s), stem |-> <<DefaultName, "_session">>, suffix |-> ".json"]

_session_file_for(s, project_id) ==
    [dir |-> storage_dir(s), stem |-> <<project_id, "_session">>, suffix |-> ".json"]

\* the lock file kept in a directory private to the process
_lock_file_forPrivate(s, project_id) ==
    [dir |-> <<"private", s>>, stem |-> <<project_id, "_session">>, suffix |-> ".lock"]

_lock_file_for(s, project_id) ==
    [dir |-> storage_dir(s), stem |-> <<project_id, "_session">>, suffix |-> ".lock"]

_resolve_project_id(project_id, default) ==
    _sanitize_project_id(IF project_id # <<>> THEN project_id ELSE default)

(***************************************************************************)
(* The inputs callers draw from.                                            *)
(***************************************************************************)
RawIds == {<<>>, <<"a", "/">>}

Projects == {_sanitize_project_id(r) : r \in RawIds}

OtherProject == <<"a", "_">>

Stores == 1..NumStores

ExportPaths == {[dir |-> <<"elsewhere">>, stem |-> <<"x">>, suffix |-> ".json"]}

SessionFiles == {_session_file_for(s, p) : s \in Stores, p \in Projects}

FilePaths == SessionFiles \cup ExportPaths

NoPath == [dir |-> <<>>, stem |-> <<>>, suffix |-> ""]

Threads == Stores \X (1..NumThreads)

NoThread == <<0, 0>>

\* the arguments of the ThoughtData a caller constructs (all validated ones)
Templates ==
    {[thought |-> "beta", thought_number |-> 2, total_thoughts |-> 2,
      next_thought_needed |-> FALSE, stage |-> "REVIEW", tags |-> <<"api", "api">>,
      axioms_used |-> <<"ax">>, assumptions_challenged |-> <<"as">>,
      files_touched |-> <<"f.py">>, tests_to_run |-> <<"pytest">>,
      risk_level |-> "high", dependencies |-> <<"dep">>, confidence_score |-> 9]}

\* ThoughtData(...) as a caller constructs it: uuid4() and datetime.now() fill id and timestamp
NewThought(kw, uuid4, now) == ThoughtData(kw @@ [timestamp |-> now, id |-> uuid4])

(***************************************************************************)
(* storage_utils (not among the sources; after section 4.2 of the           *)
(* specification): the persisted form and the codec.                        *)
(***************************************************************************)
NoFile == [state |-> "missing", thoughts |-> <<>>, metadata |-> <<>>]

FileOf(thoughts, metadata) ==
    [state |-> "complete", thoughts |-> thoughts, metadata |-> metadata]

prepare_thoughts_for_serialization(values) ==
    [i \in 1..Len(values) |-> to_dict(values[i], TRUE)]

\* the records of a file, decoded in file order; fresh ids and timestamps from clk
DecodeAll(dicts, clk) == [i \in 1..Len(dicts) |-> from_dict(dicts[i], clk + i, clk + i)]

\* load_thoughts_from_file on an existing file: the decoded records, or StorageError
StorageError == [error |-> "StorageError"]

LoadResult(content, clk) ==
    IF content.state # "complete" THEN StorageError
    ELSE LET decoded == DecodeAll(content.thoughts, clk)
         IN  IF \E i \in 1..Len(decoded) : IsError(decoded[i]) THEN StorageError
             ELSE [thoughts |-> decoded]

\* a record list as another tool wrote it: an alias for the stage, no identifier
ForeignFile ==
    FileOf(<<[thought |-> "gamma", thoughtNumber |-> 1, totalThoughts |-> 3,
              nextThoughtNeeded |-> TRUE, stage |-> " QA ", riskLevel |-> "HIGH",
              tags |-> <<"ext">>]>>, <<>>)

MalformedFile == [state |-> "malformed", thoughts |-> <<>>, metadata |-> <<>>]

\* the session file an earlier run of the server left for OtherProject, and its record
EarlierThought ==
    [thought |-> "omega", thought_number |-> 1, total_thoughts |-> 1,
     next_thought_needed |-> FALSE, stage |-> "IMPLEMENTATION", tags |-> <<"api">>,
     axioms_used |-> <<>>, assumptions_challenged |-> <<>>, files_touched |-> <<"f.py">>,
     tests_to_run |-> <<>>, risk_level |-> "low", dependencies |-> <<>>,
     confidence_score |-> 10, timestamp |-> 0, id |-> 100]

EarlierSession ==
    FileOf(<<[thought |-> "omega", thoughtNumber |-> 1, totalThoughts |-> 1,
              nextThoughtNeeded |-> FALSE, stage |-> "Implementation", tags |-> <<"api">>,
              axiomsUsed |-> <<>>, assumptionsChallenged |-> <<>>,
              filesTouched |-> <<"f.py">>, testsToRun |-> <<>>, riskLevel |-> "low",
              dependencies |-> <<>>, confidenceScore |-> 10, timestamp |-> 0,
              id |-> StrOfUuid(100)]>>, <<>>)

(***************************************************************************)
(* The state.                                                               *)
(***************************************************************************)
VARIABLES
    default_project_id,  \* [store -> project id]: self.default_project_id
    project_histories,   \* [store -> [project -> list id, 0 if absent]]: self._project_histories
    thought_history,     \* [store -> list id]: self.thought_history
    lock_owner,          \* [store -> thread holding self._lock, or NoThread]
    lists,               \* the list objects: list id -> sequence of addresses
    heap,                \* the ThoughtData instances: address -> field values
    clock,               \* source of uuid4() and datetime.now()
    files,               \* [path -> persisted content]
    temps,               \* [path -> the thread writing the temporary file of path]
    flock,               \* [thread -> the lock file it holds, or NoPath]
    pc,                  \* [thread -> position in its current operation]
    frame,               \* [thread -> arguments and locals of its current operation]
    ret,                 \* [thread -> list id its last read returned, 0 if none]
    ncalls,              \* caller steps so far
    callers,             \* the threads that invoke operations in this behaviour
    exported,            \* [path -> the field values export_session snapshotted for it]
    call,                \* the last call of a function that keeps no state: its
                         \* arguments, its environment and its result
    tool                 \* [thread -> the tool call of server.py it is serving]

vars == <<default_project_id, project_histories, thought_history, lock_owner, lists, heap,
          clock, files, temps, flock, pc, frame, ret, ncalls, callers, exported, call, tool>>

NoCall == [fn |-> "none"]

NoTool == [fn |-> "none", status |-> "none", served |-> 0]

IdleFrame ==
    [op |-> "none", project_id |-> <<>>, pid |-> <<>>, thought |-> 0, stage |-> "SCOPING",
     file_path |-> NoPath, io |-> NoPath, lock |-> NoPath, data |-> NoFile,
     thoughts |-> 0, read |-> NoFile, src |-> <<>>, status |-> "none"]

\* the field values of the instances a list holds, in list order
Values(L, H, l) == [i \in 1..Len(L[l]) |-> H[L[l][i]]]

(***************************************************************************)
(* ThoughtStorage.__init__ has run in every store instance: the default     *)
(* project is "default", whose session file does not exist yet.  An earlier *)
(* run left a session file for OtherProject; the file at the export/import  *)
(* path is absent, written by another tool, or unreadable.                  *)
(***************************************************************************)
InitFiles(x) ==
    [f \in FilePaths |->
        IF f \in ExportPaths THEN x
        ELSE IF f = _session_file_for(1, OtherProject) THEN EarlierSession
        ELSE NoFile]

Constructed ==
    /\ default_project_id = [s \in Stores |-> _sanitize_project_id(<<>>)]
    /\ project_histories =
          [s \in Stores |-> [p \in Projects |-> IF p = DefaultName THEN s ELSE 0]]
    /\ thought_history = [s \in Stores |-> s]
    /\ lock_owner = [s \in Stores |-> NoThread]
    /\ lists = [s \in Stores |-> <<>>]
    /\ heap = <<>>
    /\ clock = 0
    /\ \E x \in {NoFile, ForeignFile, MalformedFile} : files = InitFiles(x)
    /\ temps = [f \in FilePaths |-> NoThread]
    /\ flock = [t \in Threads |-> NoPath]
    /\ pc = [t \in Threads |-> "idle"]
    /\ frame = [t \in Threads |-> IdleFrame]
    /\ ret = [t \in Threads |-> 0]
    /\ ncalls = 0
    /\ exported = [f \in ExportPaths |-> <<>>]
    /\ call = NoCall
    /\ tool = [t \in Threads |-> NoTool]

\* one server process, its tool calls served by several threads
Init == Constructed /\ callers = {t \in Threads : t[1] = 1}

\* several server processes on one storage directory, one caller thread each
InitProcs == Constructed /\ callers = {t \in Threads : t[2] = 1}

(***************************************************************************)
(* Invoking an operation.  `with self._lock:` is the first statement of     *)
(* every method but export_session (which resolves the project first) and   *)
(* import_session (which loads the file first): those two wait for the      *)
(* mutex at pc "mutex", the others are invoked when the mutex is free.      *)
(***************************************************************************)
MayCall(t) == t \in callers /\ pc[t] = "idle" /\ ncalls < MaxCalls

\* add_thought without `with self._lock:`
TakesMutexButAdd(op) == op # "add_thought"

\* get_all_thoughts without `with self._lock:`
TakesMutexButGetAll(op) == op # "get_all_thoughts"

\* the methods whose statements are inside `with self._lock:`
TakesMutex(op) == TRUE

\* a method whose first statement is `with self._lock:` gets going once the mutex is free
Invoke(t, f) ==
    /\ IF TakesMutex(f.op)
       THEN /\ lock_owner[t[1]] \in {NoThread, t}
            /\ lock_owner' = [lock_owner EXCEPT ![t[1]] = t]
       ELSE lock_owner' = lock_owner
    /\ pc' = [pc EXCEPT ![t] = "locked"]
    /\ frame' = [frame EXCEPT ![t] = f]
    /\ ncalls' = ncalls + 1
    /\ ret' = [ret EXCEPT ![t] = 0]

set_default_project(t, project_id) ==
    /\ MayCall(t)
    /\ Invoke(t, [IdleFrame EXCEPT !.op = "set_default_project", !.project_id = project_id,
                                    !.pid = _sanitize_project_id(project_id)])
    /\ UNCHANGED <<default_project_id, project_histories, thought_history, lists,
                   heap, clock, files, temps, flock, callers, exported, call, tool>>

\* the caller constructs the ThoughtData, then calls add_thought with it
add_thought(t, kw, project_id) ==
    /\ MayCall(t)
    /\ heap' = Append(heap, NewThought(kw, clock + 1, clock + 1))
    /\ clock' = clock + 1
    /\ Invoke(t, [IdleFrame EXCEPT !.op = "add_thought", !.project_id = project_id,
                                    !.thought = Len(heap) + 1])
    /\ UNCHANGED <<default_project_id, project_histories, thought_history, lists,
                   files, temps, flock, callers, exported, call, tool>>

get_all_thoughts(t, project_id) ==
    /\ MayCall(t)
    /\ Invoke(t, [IdleFrame EXCEPT !.op = "get_all_thoughts", !.project_id = project_id])
    /\ UNCHANGED <<default_project_id, project_histories, thought_history, lists,
                   heap, clock, files, temps, flock, callers, exported, call, tool>>

get_thoughts_by_stage(t, stage, project_id) ==
    /\ MayCall(t)
    /\ Invoke(t, [IdleFrame EXCEPT !.op = "get_thoughts_by_stage", !.stage = stage,
                                    !.project_id = project_id])
    /\ UNCHANGED <<default_project_id, project_histories, thought_history, lists,
                   heap, clock, files, temps, flock, callers, exported, call, tool>>

clear_history(t, project_id) ==
    /\ MayCall(t)
    /\ Invoke(t, [IdleFrame EXCEPT !.op = "clear_history", !.project_id = project_id])
    /\ UNCHANGED <<default_project_id, project_histories, thought_history, lists,
                   heap, clock, files, temps, flock, callers, exported, call, tool>>

\* pid is resolved before the mutex is taken
export_session(t, file_path, project_id) ==
    /\ MayCall(t)
    /\ frame' = [frame EXCEPT ![t] =
          [IdleFrame EXCEPT
              !.op = "export_session", !.project_id = project_id, !.file_path = file_path,
              !.pid = _resolve_project_id(project_id, default_project_id[t[1]])]]
    /\ pc' = [pc EXCEPT ![t] = "mutex"]
    /\ ncalls' = ncalls + 1
    /\ ret' = [ret EXCEPT ![t] = 0]
    /\ UNCHANGED <<default_project_id, project_histories, thought_history, lock_owner, lists,
                   heap, clock, files, temps, flock, callers, exported, call, tool>>

\* load_thoughts_from_file(file_path, lock_file) comes first: a missing file is the
\* empty list at once, an existing one is read under its lock file
import_session(t, file_path, project_id) ==
    /\ MayCall(t)
    /\ LET f == [IdleFrame EXCEPT !.op = "import_session", !.project_id = project_id,
                                  !.file_path = file_path]
       IN  IF files[file_path].state = "missing"
           THEN /\ lists' = Append(lists, <<>>)
                /\ frame' = [frame EXCEPT ![t] = [f EXCEPT !.thoughts = Len(lists) + 1]]
                /\ pc' = [pc EXCEPT ![t] = "mutex"]
           ELSE /\ lists' = lists
                /\ frame' = [frame EXCEPT ![t] =
                                [f EXCEPT !.io = file_path,
                                          !.lock = with_suffix(file_path, ".lock")]]
                /\ pc' = [pc EXCEPT ![t] = "ld_lock"]
    /\ ncalls' = ncalls + 1
    /\ ret' = [ret EXCEPT ![t] = 0]
    /\ UNCHANGED <<default_project_id, project_histories, thought_history, lock_owner,
                   heap, clock, files, temps, flock, callers, exported, call, tool>>

(***************************************************************************)
(* The statements of the methods.                                           *)
(***************************************************************************)
\* self._lock.acquire() with no release
ReleaseMutexNever(owner, t) == owner

\* leaving `with self._lock:`, normally or by an exception
ReleaseMutex(owner, t) == IF owner = t THEN NoThread ELSE owner

\* history.insert(0, thought)
AppendThoughtFirst(history, thought) == <<thought>> \o history

\* history.append(thought)
AppendThought(history, thought) == Append(history, thought)

\* list(history)
CopyList(history) == history

\* the imported records merged into the history that was there
ImportAssignMerge(old, thoughts) == old \o thoughts

\* self._project_histories[pid] = thoughts: the contents of the list now in the map
ImportAssign(old, thoughts) == thoughts

\* _save_session appending only the newest record instead of rewriting the file
SavePayloadNewest(M, L, H, pid) ==
    LET v == IF M[pid] = 0 THEN <<>> ELSE Values(L, H, M[pid])
    IN  prepare_thoughts_for_serialization(IF v = <<>> THEN v ELSE <<v[Len(v)]>>)

\* _save_session: prepare_thoughts_for_serialization(self._project_histories.get(pid, []))
SavePayload(M, L, H, pid) ==
    prepare_thoughts_for_serialization(IF M[pid] = 0 THEN <<>> ELSE Values(L, H, M[pid]))

\* the "metadata" entry export_session adds
ExportMetadata(pid, history) ==
    [project |-> pid,
     totalThoughts |-> Len(history),
     stages |-> [v \in {StageValue(st) : st \in ThoughtStage} |->
                    Len(SelectSeq(history, LAMBDA x : StageValue(x.stage) = v))]]

\* an exception leaves the method: the lock file and the mutex are released
Raise(t, error) ==
    /\ pc' = [pc EXCEPT ![t] = "idle"]
    /\ frame' = [frame EXCEPT ![t] = [@ EXCEPT !.status = error, !.io = NoPath,
                                                !.lock = NoPath, !.data = NoFile]]
    /\ lock_owner' = [lock_owner EXCEPT ![t[1]] = ReleaseMutex(@, t)]
    /\ flock' = [flock EXCEPT ![t] = NoPath]

\* what a method does once _ensure_history(pid) has returned, where M, th, L and H
\* are the map, thought_history, the lists and the instances as it left them
Body(t, pid, dflt, M, th, L, H) ==
    LET s == t[1]
        f == frame[t]
        h == M[pid]
        Stmt(L0) ==
              CASE f.op = "add_thought" -> [L0 EXCEPT ![h] = AppendThought(@, f.thought)]
                [] f.op = "clear_history" -> [L0 EXCEPT ![h] = <<>>]
                [] f.op = "get_all_thoughts" -> Append(L0, CopyList(L0[h]))
                [] f.op = "get_thoughts_by_stage" ->
                      Append(L0, SelectSeq(L0[h], LAMBDA a : H[a].stage = f.stage))
                [] OTHER -> L0
        th2 == CASE f.op = "set_default_project" -> h
                 [] f.op \in {"add_thought", "clear_history"} -> IF pid = dflt THEN h ELSE th
                 [] OTHER -> th
    IN  \E L2 \in {Stmt(L)} :
        /\ project_histories' = [project_histories EXCEPT ![s] = M]
        /\ thought_history' = [thought_history EXCEPT ![s] = th2]
        /\ default_project_id' = [default_project_id EXCEPT ![s] = dflt]
        /\ lists' = L2
        /\ CASE f.op \in {"add_thought", "clear_history"} ->
                  \* self._save_session(pid), still inside `with self._lock:`
                  /\ pc' = [pc EXCEPT ![t] = "sv_lock"]
                  /\ frame' = [frame EXCEPT ![t] =
                        [f EXCEPT !.pid = pid,
                                  !.io = _session_file_for(s, pid),
                                  !.lock = _lock_file_for(s, pid),
                                  !.data = FileOf(SavePayload(M, L2, H, pid), <<>>)]]
                  /\ UNCHANGED <<lock_owner, ret>>
             [] f.op = "export_session" ->
                  \* the snapshot and its serialization; the file is written outside the mutex
                  /\ pc' = [pc EXCEPT ![t] = "sv_lock"]
                  /\ frame' = [frame EXCEPT ![t] =
                        [f EXCEPT !.io = f.file_path,
                                  !.lock = with_suffix(f.file_path, ".lock"),
                                  !.src = Values(L, H, h),
                                  !.data = FileOf(
                                      prepare_thoughts_for_serialization(Values(L, H, h)),
                                      <<ExportMetadata(pid, Values(L, H, h))>>)]]
                  /\ lock_owner' = [lock_owner EXCEPT ![s] = ReleaseMutex(@, t)]
                  /\ ret' = ret
             [] OTHER ->
                  /\ pc' = [pc EXCEPT ![t] = "idle"]
                  /\ frame' = [frame EXCEPT ![t] =
                        [f EXCEPT !.pid = pid, !.status = "ok", !.io = NoPath,
                                  !.lock = NoPath]]
                  /\ lock_owner' = [lock_owner EXCEPT ![s] = ReleaseMutex(@, t)]
                  /\ ret' = [ret EXCEPT ![t] =
                        IF f.op \in {"get_all_thoughts", "get_thoughts_by_stage"}
                        THEN Len(L2) ELSE 0]

\* _ensure_history loading the session file on every access
InHistoriesNever(M, pid) == FALSE

\* project_id in self._project_histories
InHistories(M, pid) == M[pid] # 0

\* self._lock.acquire(): blocks while another thread of the store holds it
AcquireMutex(t) ==
    /\ pc[t] = "mutex"
    /\ lock_owner[t[1]] \in {NoThread, t}
    /\ lock_owner' = [lock_owner EXCEPT ![t[1]] = t]
    /\ pc' = [pc EXCEPT ![t] = "locked"]
    /\ UNCHANGED <<default_project_id, project_histories, thought_history, lists, heap, clock,
                   files, temps, flock, frame, ret, ncalls, callers, exported, call, tool>>

\* the first statements inside `with self._lock:`: resolve the project, then
\* _ensure_history (import_session: replace the map entry instead)
Locked(t) ==
    /\ pc[t] = "locked"
    /\ LET s == t[1]
           f == frame[t]
           pid == IF f.op \in {"set_default_project", "export_session"} THEN f.pid
                  ELSE _resolve_project_id(f.project_id, default_project_id[s])
           dflt == IF f.op = "set_default_project" THEN pid ELSE default_project_id[s]
           M == project_histories[s]
           th == thought_history[s]
           new == Len(lists) + 1
       IN  IF f.op = "import_session"
           THEN LET M1 == [M EXCEPT ![pid] = f.thoughts]
                    L1 == [lists EXCEPT ![f.thoughts] =
                             ImportAssign(IF M[pid] = 0 THEN <<>> ELSE lists[M[pid]], @)]
                IN  /\ project_histories' = [project_histories EXCEPT ![s] = M1]
                    /\ lists' = L1
                    /\ thought_history' = [thought_history EXCEPT ![s] =
                                              IF pid = dflt THEN f.thoughts ELSE @]
                    /\ pc' = [pc EXCEPT ![t] = "sv_lock"]
                    /\ frame' = [frame EXCEPT ![t] =
                          [f EXCEPT !.pid = pid,
                                    !.io = _session_file_for(s, pid),
                                    !.lock = _lock_file_for(s, pid),
                                    !.data = FileOf(SavePayload(M1, L1, heap, pid), <<>>)]]
                    /\ UNCHANGED <<default_project_id, lock_owner, ret>>
           ELSE IF InHistories(M, pid)
           THEN Body(t, pid, dflt, M, IF pid = dflt THEN M[pid] ELSE th, lists, heap)
           ELSE IF files[_session_file_for(s, pid)].state = "missing"
           THEN Body(t, pid, dflt, [M EXCEPT ![pid] = new],
                     IF pid = dflt THEN new ELSE th, Append(lists, <<>>), heap)
           ELSE /\ pc' = [pc EXCEPT ![t] = "ld_lock"]
                /\ frame' = [frame EXCEPT ![t] =
                      [f EXCEPT !.pid = pid,
                                !.io = _session_file_for(s, pid),
                                !.lock = _lock_file_for(s, pid)]]
                /\ default_project_id' = [default_project_id EXCEPT ![s] = dflt]
                /\ UNCHANGED <<project_histories, thought_history, lists, lock_owner, ret>>
    /\ UNCHANGED <<heap, clock, files, temps, flock, ncalls, callers, exported, call, tool>>

(***************************************************************************)
(* storage_utils (after section 4.2 and 4.3 of the specification): every    *)
(* read or write of a file holds the companion lock file; acquiring it      *)
(* waits a bounded time and then fails with StorageError; a save writes a   *)
(* temporary file beside the target and renames it over the target.         *)
(***************************************************************************)
LockFree(l, t) == \A u \in Threads \ {t} : flock[u] # l

\* the lock file is acquired; a save then starts writing the temporary file
LockFile(t) ==
    /\ pc[t] \in {"ld_lock", "sv_lock"}
    /\ LockFree(frame[t].lock, t)
    /\ flock' = [flock EXCEPT ![t] = frame[t].lock]
    /\ pc' = [pc EXCEPT ![t] = IF pc[t] = "ld_lock" THEN "ld_read" ELSE "sv_rename"]
    /\ temps' = IF pc[t] = "sv_lock" THEN [temps EXCEPT ![frame[t].io] = t] ELSE temps
    /\ UNCHANGED <<default_project_id, project_histories, thought_history, lock_owner, lists,
                   heap, clock, files, frame, ret, ncalls, callers, exported, call, tool>>

LockTimeout(t) ==
    /\ pc[t] \in {"ld_lock", "sv_lock"}
    /\ ~LockFree(frame[t].lock, t)
    /\ Raise(t, "StorageError")
    /\ UNCHANGED <<default_project_id, project_histories, thought_history, lists, heap, clock,
                   files, temps, ret, ncalls, callers, exported, call, tool>>

\* load_thoughts_from_file under the lock: read, decode, release; then the caller goes on
ReadFile(t) ==
    /\ pc[t] = "ld_read"
    /\ \E res \in {LoadResult(files[frame[t].io], clock)} :
       LET s == t[1]
           f == frame[t]
       IN  IF IsError(res)
           THEN /\ Raise(t, "StorageError")
                /\ UNCHANGED <<default_project_id, project_histories, thought_history, lists,
                               heap, clock, ret>>
           ELSE LET n == Len(res.thoughts)
                    H1 == heap \o res.thoughts
                    L1 == Append(lists, [i \in 1..n |-> Len(heap) + i])
                    new == Len(lists) + 1
                IN  /\ heap' = H1
                    /\ clock' = clock + n
                    /\ flock' = [flock EXCEPT ![t] = NoPath]
                    /\ IF f.op = "import_session"
                       THEN /\ lists' = L1
                            /\ pc' = [pc EXCEPT ![t] = "mutex"]
                            /\ frame' = [frame EXCEPT ![t] =
                                  [f EXCEPT !.thoughts = new, !.read = files[f.io],
                                            !.src = exported[f.io],
                                            !.io = NoPath, !.lock = NoPath]]
                            /\ UNCHANGED <<default_project_id, project_histories,
                                           thought_history, lock_owner, ret>>
                       ELSE Body(t, f.pid, default_project_id[s],
                                 [project_histories[s] EXCEPT ![f.pid] = new],
                                 IF f.pid = default_project_id[s] THEN new
                                 ELSE thought_history[s],
                                 L1, H1)
    /\ UNCHANGED <<files, temps, ncalls, callers, exported, call, tool>>

\* the records serialized when the file is written, outside the mutex
WrittenThoughtsLive(t, f) ==
    IF f.op = "export_session"
    THEN SavePayload(project_histories[t[1]], lists, heap, f.pid)
    ELSE f.data.thoughts

\* the records save_thoughts_to_file is handed: thoughts_with_ids, serialized
\* before the call (export_session: inside `with self._lock:`)
WrittenThoughts(t, f) == f.data.thoughts

\* the temporary file is complete (unless another writer used it meanwhile) and is
\* renamed over the target; the lock file is released and the method returns
Rename(t) ==
    /\ pc[t] = "sv_rename"
    /\ LET f == [frame[t] EXCEPT !.data.thoughts = WrittenThoughts(t, frame[t])]
       IN  /\ files' = [files EXCEPT ![f.io] =
                          IF temps[f.io] = t THEN f.data ELSE [f.data EXCEPT !.state = "torn"]]
           /\ temps' = [temps EXCEPT ![f.io] = NoThread]
           /\ exported' = IF f.op = "export_session"
                          THEN [exported EXCEPT ![f.io] = <<f.src>>] ELSE exported
           /\ frame' = [frame EXCEPT ![t] = [f EXCEPT !.status = "ok", !.io = NoPath,
                                                      !.lock = NoPath, !.data = NoFile]]
    /\ flock' = [flock EXCEPT ![t] = NoPath]
    /\ lock_owner' = [lock_owner EXCEPT ![t[1]] = ReleaseMutex(@, t)]
    /\ pc' = [pc EXCEPT ![t] = "idle"]
    /\ UNCHANGED <<default_project_id, project_histories, thought_history, lists, heap, clock,
                   ret, ncalls, callers, call, tool>>

(***************************************************************************)
(* What a caller can do with a list a read handed to it: lists and          *)
(* ThoughtData instances are ordinary mutable Python objects (model_config  *)
(* does not freeze the model and does not validate assignments).            *)
(***************************************************************************)
HoldsResult(t) == pc[t] = "idle" /\ ret[t] # 0 /\ ncalls < MaxCalls

\* result.pop()
CallerPopsResult(t) ==
    /\ HoldsResult(t)
    /\ lists[ret[t]] # <<>>
    /\ lists' = [lists EXCEPT ![ret[t]] = SubSeq(@, 1, Len(@) - 1)]
    /\ ncalls' = ncalls + 1
    /\ UNCHANGED <<default_project_id, project_histories, thought_history, lock_owner, heap,
                   clock, files, temps, flock, pc, frame, ret, callers, exported, call, tool>>

\* result[i].confidence_score = 1.1
CallerAssignsField(t) ==
    /\ HoldsResult(t)
    /\ \E i \in 1..Len(lists[ret[t]]) :
          heap' = [heap EXCEPT ![lists[ret[t]][i]] =
                     [@ EXCEPT !.confidence_score = ConfidenceUnit + 1]]
    /\ ncalls' = ncalls + 1
    /\ UNCHANGED <<default_project_id, project_histories, thought_history, lock_owner, lists,
                   clock, files, temps, flock, pc, frame, ret, callers, exported, call, tool>>

(***************************************************************************)
(* The specification.                                                       *)
(***************************************************************************)
StageArgs == {"REVIEW"}

Next ==
    \E t \in Threads :
        \/ \E project_id \in RawIds : set_default_project(t, project_id)
        \/ \E kw \in Templates, project_id \in RawIds : add_thought(t, kw, project_id)
        \/ \E project_id \in RawIds : get_all_thoughts(t, project_id)
        \/ \E stage \in StageArgs, project_id \in RawIds :
              get_thoughts_by_stage(t, stage, project_id)
        \/ \E project_id \in RawIds : clear_history(t, project_id)
        \/ \E file_path \in ExportPaths, project_id \in RawIds :
              export_session(t, file_path, project_id)
        \/ \E file_path \in ExportPaths, project_id \in RawIds :
              import_session(t, file_path, project_id)
        \/ AcquireMutex(t)
        \/ Locked(t)
        \/ LockFile(t)
        \/ LockTimeout(t)
        \/ ReadFile(t)
        \/ Rename(t)

\* the server: its tools never change what the store hands them
Spec == Init /\ [][Next]_vars

SpecProcs == InitProcs /\ [][Next]_vars

\* any client of the store's interface
NextClient ==
    \/ Next
    \/ \E t \in Threads : CallerPopsResult(t) \/ CallerAssignsField(t)

SpecClient == Init /\ [][NextClient]_vars

\* the steps of thread t inside an operation it has invoked
Step(t) ==
    AcquireMutex(t) \/ Locked(t) \/ LockFile(t) \/ LockTimeout(t) \/ ReadFile(t) \/ Rename(t)

\* two threads of one server and the main thread of a second server
InitMixed == Constructed /\ callers = {t \in Threads : t[1] = 1 \/ t[2] = 1}

PcValues == {"idle", "mutex", "locked", "ld_lock", "ld_read", "sv_lock", "sv_rename"}

\* the thread is inside a method and the operating system can run it: it is not
\* blocked in self._lock.acquire() (a wait for a lock file is a timed wait, which
\* ends by itself)
Runnable(t) ==
    /\ pc[t] # "idle"
    /\ pc[t] = "mutex" => lock_owner[t[1]] \in {NoThread, t}

\* the thread executes its next statement (which is then a step of Step(t))
Runs(t) == Runnable(t) /\ \E v \in PcValues \ {pc[t]} : pc' = [pc EXCEPT ![t] = v]

\* Runnable(t) is exactly when a step of Step(t) is possible
RunnableIsEnabled == \A t \in Threads : Runnable(t) <=> ENABLED <<Step(t)>>_pc

\* and the steps of a runnable thread are the steps of Step(t)
RunsIsStep == [][\A t \in Threads : Runs(t) <=> Step(t)]_vars

\* the scheduler is fair to every runnable thread
FairSpec == InitMixed /\ [][Next]_vars /\ \A t \in Threads : WF_pc(Runs(t))

(***************************************************************************)
(* analysis.py: ThoughtAnalyzer.  Its functions keep no state; a call is    *)
(* recorded in `call` with its arguments, its environment and its result.   *)
(* Lists of strings are sequences, set(...) of one is its Range.            *)
(***************************************************************************)
MaxHistory == 3     \* longest all_thoughts the calls are given (but CoveringHistories)

Min(a, b) == IF a < b THEN a ELSE b

Max(a, b) == IF a < b THEN b ELSE a

\* the score find_related_thoughts gives thought as a candidate for current_thought
Score(thought, current_thought) ==
    (IF thought.stage = current_thought.stage THEN 3 ELSE 0)
    + Cardinality(Range(current_thought.tags) \cap Range(thought.tags))
    + Cardinality(Range(current_thought.files_touched) \cap Range(thought.files_touched)) * 2
    + Cardinality(Range(current_thought.dependencies) \cap Range(thought.dependencies))
    + (IF thought.risk_level = current_thought.risk_level THEN 1 ELSE 0)

\* the candidates list after the for loop: pairs <<score, thought>> in the order of
\* all_thoughts
Candidates(current_thought, all_thoughts) ==
    SelectSeq([i \in 1..Len(all_thoughts) |->
                  <<Score(all_thoughts[i], current_thought), all_thoughts[i]>>],
              LAMBDA item : item[2].id # current_thought.id /\ item[1] > 0)

\* key=lambda item: (item[0], item[1].thought_number), compared as tuples
KeyLess(a, b) ==
    \/ a[1] < b[1]
    \/ a[1] = b[1] /\ a[2].thought_number < b[2].thought_number

\* list.sort(key=..., reverse=True): descending, and stable (items of equal key keep
\* the order they had)
RECURSIVE SortReverse(_)
SortReverse(items) ==
    IF items = <<>> THEN <<>>
    ELSE LET n == Len(items)
             x == items[n]
             sorted == SortReverse(SubSeq(items, 1, n - 1))
             k == Cardinality({i \in 1..Len(sorted) : ~KeyLess(sorted[i], x)})
         IN  SubSeq(sorted, 1, k) \o <<x>> \o SubSeq(sorted, k + 1, Len(sorted))

\* items[:stop]
SliceTo(items, stop) ==
    IF stop >= 0 THEN SubSeq(items, 1, Min(stop, Len(items)))
    ELSE SubSeq(items, 1, Max(0, Len(items) + stop))

\* pytest says whether importlib.util.find_spec("pytest") finds a module;
\* test_results is what TestHelpers.find_related_thoughts_test returned (looked at
\* only when pytest holds)
find_related_thoughts(current_thought, all_thoughts, max_results, pytest, test_results) ==
    IF pytest /\ test_results # <<>> THEN test_results
    ELSE LET candidates == SortReverse(Candidates(current_thought, all_thoughts))
             kept == SliceTo(candidates, max_results)
         IN  [i \in 1..Len(kept) |-> kept[i][2]]

_stage_coverage(thoughts) ==
    [stage \in ThoughtStage |->
        Cardinality({i \in 1..Len(thoughts) : thoughts[i].stage = stage})]

\* the three rules as one if/elif chain
_metadata_alertsFirstOnly(thought) ==
    IF thought.stage = "IMPLEMENTATION" /\ thought.files_touched = <<>>
    THEN <<"Implementation thoughts should list filesTouched for traceability.">>
    ELSE IF thought.stage \in {"TESTING", "REVIEW"} /\ thought.tests_to_run = <<>>
    THEN <<"Capture testsToRun to keep testing expectations explicit.">>
    ELSE IF thought.risk_level = "high" /\ thought.confidence_score * 2 < ConfidenceUnit
    THEN <<"High-risk thought marked with low confidence; consider another research thought.">>
    ELSE <<>>

\* the alerts in the order they are appended
_metadata_alerts(thought) ==
    (IF thought.stage = "IMPLEMENTATION" /\ thought.files_touched = <<>>
     THEN <<"Implementation thoughts should list filesTouched for traceability.">>
     ELSE <<>>)
    \o (IF thought.stage \in {"TESTING", "REVIEW"} /\ thought.tests_to_run = <<>>
        THEN <<"Capture testsToRun to keep testing expectations explicit.">>
        ELSE <<>>)
    \o (IF thought.risk_level = "high" /\ thought.confidence_score * 2 < ConfidenceUnit
        THEN <<"High-risk thought marked with low confidence; consider another research thought.">>
        ELSE <<>>)

\* progress >= 80, where progress = (thought_number / total_thoughts) * 100 in floating
\* point: for the counts of the model the comparison agrees with the exact one
ProgressAtLeast80(thought) == thought.thought_number * 100 >= 80 * thought.total_thoughts

\* the rules with the Review rule before the rule on the count
GuidanceReviewFirst(thought, pending_stages) ==
    IF thought.stage = "REVIEW"
    THEN [recommendedNextThoughtNeeded |-> FALSE, reason |-> "Review stage complete."]
    ELSE IF thought.thought_number >= thought.total_thoughts
    THEN [recommendedNextThoughtNeeded |-> FALSE, reason |-> "Reached total planned thoughts."]
    ELSE IF pending_stages = {} /\ thought.thought_number * 100 >= 80 * thought.total_thoughts
    THEN [recommendedNextThoughtNeeded |-> FALSE,
          reason |-> "Core stages covered; diminishing returns."]
    ELSE [recommendedNextThoughtNeeded |-> TRUE, reason |-> "Continue to next step."]

\* the rules with the coverage rule before the Review rule
GuidanceCoverageFirst(thought, pending_stages) ==
    IF thought.thought_number >= thought.total_thoughts
    THEN [recommendedNextThoughtNeeded |-> FALSE, reason |-> "Reached total planned thoughts."]
    ELSE IF pending_stages = {} /\ thought.thought_number * 100 >= 80 * thought.total_thoughts
    THEN [recommendedNextThoughtNeeded |-> FALSE,
          reason |-> "Core stages covered; diminishing returns."]
    ELSE IF thought.stage = "REVIEW"
    THEN [recommendedNextThoughtNeeded |-> FALSE, reason |-> "Review stage complete."]
    ELSE [recommendedNextThoughtNeeded |-> TRUE, reason |-> "Continue to next step."]

\* recommended_next and guidance_reason
Guidance(thought, pending_stages) ==
    IF thought.thought_number >= thought.total_thoughts
    THEN [recommendedNextThoughtNeeded |-> FALSE, reason |-> "Reached total planned thoughts."]
    ELSE IF thought.stage = "REVIEW"
    THEN [recommendedNextThoughtNeeded |-> FALSE, reason |-> "Review stage complete."]
    ELSE IF pending_stages = {} /\ ProgressAtLeast80(thought)
    THEN [recommendedNextThoughtNeeded |-> FALSE,
          reason |-> "Core stages covered; diminishing returns."]
    ELSE [recommendedNextThoughtNeeded |-> TRUE, reason |-> "Continue to next step."]

\* the first record of the stage with another text, as a list, or the empty list
FirstOtherOfStage(thought, all_thoughts) ==
    LET hits == {i \in 1..Len(all_thoughts) :
                    /\ all_thoughts[i].stage = thought.stage
                    /\ all_thoughts[i].thought # thought.thought}
    IN  IF hits = {} THEN <<>>
        ELSE <<all_thoughts[CHOOSE i \in hits : \A j \in hits : i <= j]>>

\* first_in_stage_test is what TestHelpers.set_first_in_stage_test(thought) returned;
\* the parts of the result the properties are about
analyze_thought(thought, all_thoughts, pytest, first_in_stage_test, test_results) ==
    LET hooked == pytest /\ first_in_stage_test
        related_thoughts ==
            IF hooked THEN FirstOtherOfStage(thought, all_thoughts)
            ELSE find_related_thoughts(thought, all_thoughts, 3, pytest, test_results)
        same_stage_thoughts == SelectSeq(all_thoughts, LAMBDA t : t.stage = thought.stage)
        is_first_in_stage == IF hooked THEN TRUE ELSE Len(same_stage_thoughts) <= 1
        stage_coverage == _stage_coverage(all_thoughts)
        pending_stages == {stage \in ThoughtStage : stage_coverage[stage] = 0}
    IN  [relatedThoughtsCount |-> Len(related_thoughts),
         related |-> related_thoughts,
         isFirstInStage |-> is_first_in_stage,
         metadataAlerts |-> _metadata_alerts(thought),
         stageCoverage |-> stage_coverage,
         pendingStages |-> pending_stages,
         thoughtHistoryLength |-> Len(all_thoughts),
         guidance |-> Guidance(thought, pending_stages)]

\* sorted(thoughts, key=lambda x: x.thought_number): ascending and stable
RECURSIVE SortByNumber(_)
SortByNumber(thoughts) ==
    IF thoughts = <<>> THEN <<>>
    ELSE LET n == Len(thoughts)
             x == thoughts[n]
             sorted == SortByNumber(SubSeq(thoughts, 1, n - 1))
             k == Cardinality({i \in 1..Len(sorted) :
                                  sorted[i].thought_number <= x.thought_number})
         IN  SubSeq(sorted, 1, k) \o <<x>> \o SubSeq(sorted, k + 1, Len(sorted))

Placeholder == [summary |-> "No thoughts recorded yet"]

\* the summary with stage_counts in the place of stage_counts_with_missing
generate_summaryCounted(thoughts) ==
    IF thoughts = <<>> THEN Placeholder
    ELSE LET stage_counts ==
                 [v \in {StageValue(thoughts[i].stage) : i \in 1..Len(thoughts)} |->
                     Cardinality({i \in 1..Len(thoughts) :
                                     StageValue(thoughts[i].stage) = v})]
             sorted_thoughts == SortByNumber(thoughts)
         IN  [summary |->
                [totalThoughts |-> Len(thoughts),
                 stages |-> stage_counts,
                 timeline |-> [i \in 1..Len(thoughts) |->
                                  [number |-> sorted_thoughts[i].thought_number,
                                   stage |-> StageValue(sorted_thoughts[i].stage)]],
                 completionStatus |->
                    [hasAllStages |-> \A stage \in ThoughtStage :
                                         StageValue(stage) \in DOMAIN stage_counts]]]

\* the parts of the summary the properties are about
generate_summary(thoughts) ==
    IF thoughts = <<>> THEN Placeholder
    ELSE LET stage_counts_with_missing ==
                 [v \in {StageValue(stage) : stage \in ThoughtStage} |->
                     Cardinality({i \in 1..Len(thoughts) :
                                     StageValue(thoughts[i].stage) = v})]
             sorted_thoughts == SortByNumber(thoughts)
         IN  [summary |->
                [totalThoughts |-> Len(thoughts),
                 stages |-> stage_counts_with_missing,
                 timeline |-> [i \in 1..Len(thoughts) |->
                                  [number |-> sorted_thoughts[i].thought_number,
                                   stage |-> StageValue(sorted_thoughts[i].stage)]],
                 completionStatus |->
                    [hasAllStages |-> \A stage \in ThoughtStage :
                                         stage_counts_with_missing[StageValue(stage)] > 0]]]

(***************************************************************************)
(* The calls of the functions that keep no state, and their arguments.      *)
(***************************************************************************)
\* a validated ThoughtData with the defaults of the fields not given
Record(id, thought, number, total, stage, tags, touched, deps, tests, risk, confidence) ==
    [thought |-> thought, thought_number |-> number, total_thoughts |-> total,
     next_thought_needed |-> number < total, stage |-> stage, tags |-> tags,
     axioms_used |-> <<>>, assumptions_challenged |-> <<>>, files_touched |-> touched,
     tests_to_run |-> tests, risk_level |-> risk, dependencies |-> deps,
     confidence_score |-> confidence, timestamp |-> id, id |-> id]

\* the records the analyzer is given; the first four are those of tests/test_analysis.py
RecordPool ==
    {Record(1, "first", 1, 5, "SCOPING", <<"climate", "global">>, <<"README.md">>, <<>>,
            <<>>, "medium", 5),
     Record(2, "research", 2, 5, "RESEARCH_SPIKE", <<"climate", "data", "emissions">>, <<>>,
            <<"epa-api">>, <<>>, "medium", 5),
     Record(3, "implementation", 3, 5, "IMPLEMENTATION", <<"policy", "impact">>,
            <<"policy.py">>, <<>>, <<"pytest tests/test_policy.py">>, "high", 5),
     Record(4, "another", 4, 5, "SCOPING", <<"problem", "definition">>, <<>>,
            <<"stakeholder-alignment">>, <<>>, "medium", 5),
     Record(5, "review", 5, 5, "REVIEW", <<"climate", "synthesis">>, <<>>, <<"epa-api">>,
            <<>>, "medium", 5),
     Record(6, "testing", 4, 5, "TESTING", <<"policy">>, <<"policy.py">>, <<>>, <<>>,
            "high", 4),
     Record(7, "build", 3, 4, "IMPLEMENTATION", <<"data">>, <<>>, <<"epa-api">>, <<>>,
            "high", 4),
     Record(8, "check", 4, 5, "REVIEW", <<"global">>, <<>>, <<>>, <<"pytest">>, "low", 5),
     Record(9, "draft", 2, 4, "IMPLEMENTATION", <<>>, <<>>, <<>>, <<>>, "low", 10)}

PoolRecord(id) == CHOOSE r \in RecordPool : r.id = id

RECURSIVE SeqsUpTo(_, _)
SeqsUpTo(S, n) ==
    IF n = 0 THEN {<<>>}
    ELSE LET shorter == SeqsUpTo(S, n - 1)
         IN  shorter \cup {Append(q, x) : q \in {q \in shorter : Len(q) = n - 1}, x \in S}

\* histories that cover every stage, with and without the second Scoping record
CoveringHistories ==
    {[i \in 1..5 |-> PoolRecord(<<1, 2, 3, 6, 5>>[i])],
     [i \in 1..6 |-> PoolRecord(<<1, 2, 3, 6, 5, 4>>[i])]}

\* self.all_thoughts of tests/test_analysis.py
SetUpHistory == [i \in 1..4 |-> PoolRecord(i)]

Histories == SeqsUpTo(RecordPool, MaxHistory) \cup CoveringHistories \cup {SetUpHistory}

MaxResultsArgs == {0, 1, 3}

\* what TestHelpers.find_related_thoughts_test can have returned: nothing, or the list
\* its test expects (one record of the stage of the thought)
TestResults(thought, all_thoughts) == {<<>>, FirstOtherOfStage(thought, all_thoughts)}

\* the keyword arguments ThoughtData(...) is called with
KwArgs ==
    {[thought |-> th, thought_number |-> n, total_thoughts |-> tot,
      next_thought_needed |-> TRUE, stage |-> "SCOPING", tags |-> <<>>,
      axioms_used |-> <<>>, assumptions_challenged |-> <<>>, files_touched |-> <<>>,
      tests_to_run |-> <<>>, risk_level |-> "medium", dependencies |-> <<>>,
      confidence_score |-> c, timestamp |-> 0, id |-> 0] :
        th \in {"", " ", "beta"}, n \in -1..2, tot \in 0..2,
        c \in {-1, 0, ConfidenceUnit, ConfidenceUnit + 1}}

\* whether pytest can be imported, and what the test helpers answered if it can
Environment(thought, all_thoughts) ==
    {<<FALSE, FALSE, <<>>>>}
    \cup {<<TRUE, b, r>> : b \in BOOLEAN, r \in TestResults(thought, all_thoughts)}

\* the store is not involved
StoreUnchanged ==
    UNCHANGED <<default_project_id, project_histories, thought_history, lock_owner, lists,
                heap, clock, files, temps, flock, pc, frame, ret, ncalls, callers, exported,
                tool>>

CallThoughtData ==
    /\ call = NoCall
    /\ \E kw \in KwArgs :
          call' = [fn |-> "ThoughtData", kw |-> kw, result |-> ThoughtData(kw)]
    /\ StoreUnchanged

CallFindRelated ==
    /\ call = NoCall
    /\ \E thought \in RecordPool, all_thoughts \in Histories, max_results \in MaxResultsArgs :
          \E env \in Environment(thought, all_thoughts) :
             call' = [fn |-> "find_related_thoughts", thought |-> thought,
                      all_thoughts |-> all_thoughts, max_results |-> max_results,
                      pytest |-> env[1], test_results |-> env[3],
                      result |-> find_related_thoughts(thought, all_thoughts, max_results,
                                                       env[1], env[3])]
    /\ StoreUnchanged

CallAnalyze ==
    /\ call = NoCall
    /\ \E thought \in RecordPool, all_thoughts \in Histories :
          \E env \in Environment(thought, all_thoughts) :
             call' = [fn |-> "analyze_thought", thought |-> thought,
                      all_thoughts |-> all_thoughts, pytest |-> env[1],
                      first_in_stage_test |-> env[2], test_results |-> env[3],
                      result |-> analyze_thought(thought, all_thoughts, env[1], env[2],
                                                 env[3])]
    /\ StoreUnchanged

CallSummary ==
    /\ call = NoCall
    /\ \E thoughts \in Histories :
          call' = [fn |-> "generate_summary", thoughts |-> thoughts,
                   result |-> generate_summary(thoughts)]
    /\ StoreUnchanged

MaxIdLen == 3       \* longest project id the sanitizer is given (but ExampleId)

\* the characters project ids are made of: safe ones, a separator, white space
IdChars == {"a", ".", "/", " "}

ExampleId == <<"a", "/", "b", " ", "c">>

\* the project_id arguments; the empty sequence is "" as well as None
IdArgs == SeqsUpTo(IdChars, MaxIdLen) \cup {ExampleId}

CallSanitize ==
    /\ call = NoCall
    /\ \E project_id \in IdArgs :
          call' = [fn |-> "_sanitize_project_id", project_id |-> project_id,
                   result |-> _sanitize_project_id(project_id)]
    /\ StoreUnchanged

\* the value arguments of from_string: canonical values, aliases, other cases and
\* white space around them, and strings that name no stage
StageStrings ==
    {"", " ", "Scoping", "Research & Spike", "Implementation", "Testing", "Review",
     "REVIEW", " Review", "scoping", "Planning", "planning", "qa", " QA ", "r&d", "ship",
     "Invalid Stage", "done"}

CallFromString ==
    /\ call = NoCall
    /\ \E value \in StageStrings :
          call' = [fn |-> "from_string", value |-> value, result |-> from_string(value)]
    /\ StoreUnchanged

NextFn ==
    \/ CallThoughtData
    \/ CallFindRelated
    \/ CallAnalyze
    \/ CallSummary
    \/ CallSanitize
    \/ CallFromString

InitFn == Constructed /\ callers = {} /\ files = InitFiles(NoFile)

\* one call of a function of models.py or analysis.py
SpecFn == InitFn /\ [][NextFn]_vars

(***************************************************************************)
(* server.py: the process_thought tool.  The module holds one               *)
(* ThoughtStorage, `storage` (store 1); a tool call is served by a thread   *)
(* and is a sequence of calls of the store, between which other threads     *)
(* run.                                                                     *)
(***************************************************************************)
MaxToolCalls == 1   \* tool calls one thread serves in one behaviour

\* the stage, risk_level and thought_number arguments: a valid call, and calls with
\* an unknown stage, an unknown risk level and a thought_number that is not positive
ToolArgs ==
    {[stage |-> " Review", risk_level |-> "HIGH", thought_number |-> 2],
     [stage |-> "Invalid Stage", risk_level |-> "HIGH", thought_number |-> 2],
     [stage |-> " Review", risk_level |-> "severe", thought_number |-> 2],
     [stage |-> " Review", risk_level |-> "HIGH", thought_number |-> 0]}

\* thought_stage, risk_value and thought_data of process_thought: the ThoughtData, or
\* the error raised on the way
ThoughtDataOf(args, uuid4, now) ==
    LET thought_stage == from_string(args.stage)
        risk_value == IF args.risk_level # "" THEN RiskLevelOf(StrLower(args.risk_level))
                      ELSE [risk |-> "medium"]
    IN  IF IsError(thought_stage) THEN thought_stage
        ELSE IF IsError(risk_value) THEN risk_value
        ELSE NewThought([(CHOOSE kw \in Templates : TRUE) EXCEPT
                            !.stage = thought_stage.stage,
                            !.risk_level = risk_value.risk,
                            !.thought_number = args.thought_number],
                        uuid4, now)

\* what the store holds: the default project, the loaded histories, the session files
StoreSnapshot(s) ==
    [default |-> default_project_id[s],
     loaded |-> [p \in Projects |-> project_histories[s][p] # 0],
     histories |-> [p \in Projects |->
                      IF project_histories[s][p] = 0 THEN <<>>
                      ELSE Values(lists, heap, project_histories[s][p])],
     files |-> [p \in Projects |-> files[_session_file_for(s, p)]]]

\* the except branch: {"error": ..., "status": "failed"}
Failed(tl) == [tl EXCEPT !.status = "failed", !.step = "done"]

\* from the parse of the stage to storage.add_thought(thought_data, project_id=project_id)
ParseAndAdd(t, tl) ==
    \E thought_data \in {ThoughtDataOf(tl.args, clock + 1, clock + 1)} :
        IF IsError(thought_data)
        THEN /\ tool' = [tool EXCEPT ![t] = Failed(tl)]
             /\ UNCHANGED <<heap, clock, lock_owner, pc, frame, ncalls, ret>>
        ELSE /\ heap' = Append(heap, thought_data)
             /\ clock' = clock + 1
             /\ Invoke(t, [IdleFrame EXCEPT !.op = "add_thought",
                                            !.project_id = tl.project_id,
                                            !.thought = Len(heap) + 1])
             /\ tool' = [tool EXCEPT ![t] = [tl EXCEPT !.step = "add_thought",
                                                       !.thought = Len(heap) + 1]]

\* the call arrives; `if project_id: storage.set_default_project(project_id)`
process_thought(t, project_id, args) ==
    /\ t \in callers
    /\ pc[t] = "idle"
    /\ tool[t].status # "running"
    /\ tool[t].served < MaxToolCalls
    /\ LET tl == [fn |-> "process_thought", status |-> "running",
                  served |-> tool[t].served + 1, step |-> "set_default_project",
                  project_id |-> project_id, args |-> args, thought |-> 0,
                  added |-> <<>>, read |-> <<>>, all_thoughts |-> 0,
                  analysis |-> <<>>, before |-> StoreSnapshot(t[1])]
       IN  IF project_id # <<>>
           THEN /\ Invoke(t, [IdleFrame EXCEPT !.op = "set_default_project",
                                               !.project_id = project_id,
                                               !.pid = _sanitize_project_id(project_id)])
                /\ tool' = [tool EXCEPT ![t] = tl]
                /\ UNCHANGED <<heap, clock>>
           ELSE ParseAndAdd(t, tl)
    /\ UNCHANGED <<default_project_id, project_histories, thought_history, lists, files,
                   temps, flock, callers, exported, call>>

\* storage.set_default_project has returned or raised
AfterSetDefault(t) ==
    /\ tool[t].status = "running"
    /\ tool[t].step = "set_default_project"
    /\ pc[t] = "idle"
    /\ IF frame[t].status # "ok"
       THEN /\ tool' = [tool EXCEPT ![t] = Failed(@)]
            /\ UNCHANGED <<heap, clock, lock_owner, pc, frame, ncalls, ret>>
       ELSE ParseAndAdd(t, tool[t])
    /\ UNCHANGED <<default_project_id, project_histories, thought_history, lists, files,
                   temps, flock, callers, exported, call>>

\* storage.add_thought has returned or raised; then
\* all_thoughts = storage.get_all_thoughts(project_id=project_id)
AfterAdd(t) ==
    /\ tool[t].status = "running"
    /\ tool[t].step = "add_thought"
    /\ pc[t] = "idle"
    /\ IF frame[t].status # "ok"
       THEN /\ tool' = [tool EXCEPT ![t] = Failed(@)]
            /\ UNCHANGED <<lock_owner, pc, frame, ncalls, ret>>
       ELSE /\ Invoke(t, [IdleFrame EXCEPT !.op = "get_all_thoughts",
                                           !.project_id = tool[t].project_id])
            /\ tool' = [tool EXCEPT ![t] = [@ EXCEPT !.step = "get_all_thoughts",
                                                     !.added = frame[t].pid]]
    /\ UNCHANGED <<default_project_id, project_histories, thought_history, lists, heap,
                   clock, files, temps, flock, callers, exported, call>>

\* storage.get_all_thoughts has returned or raised; then
\* analysis = ThoughtAnalyzer.analyze_thought(thought_data, all_thoughts) (where pytest
\* cannot be imported) and the tool returns it
AfterGetAll(t) ==
    /\ tool[t].status = "running"
    /\ tool[t].step = "get_all_thoughts"
    /\ pc[t] = "idle"
    /\ tool' = [tool EXCEPT ![t] =
          IF frame[t].status # "ok" THEN Failed(@)
          ELSE [@ EXCEPT !.status = "ok", !.step = "done", !.read = frame[t].pid,
                         !.all_thoughts = ret[t],
                         !.analysis = analyze_thought(heap[tool[t].thought],
                                                      Values(lists, heap, ret[t]),
                                                      FALSE, FALSE, <<>>)]]
    /\ UNCHANGED <<default_project_id, project_histories, thought_history, lock_owner, lists,
                   heap, clock, files, temps, flock, pc, frame, ret, ncalls, callers,
                   exported, call>>

NextServer ==
    \E t \in Threads :
        \/ \E project_id \in RawIds, args \in ToolArgs : process_thought(t, project_id, args)
        \/ AfterSetDefault(t)
        \/ AfterAdd(t)
        \/ AfterGetAll(t)
        \/ Locked(t)
        \/ LockFile(t)
        \/ ReadFile(t)
        \/ Rename(t)

\* the server with several tool calls in progress
SpecServer == Init /\ [][NextServer]_vars

(***************************************************************************)
(* Vocabulary of the properties.                                           *)
(***************************************************************************)
Mutators == {"add_thought", "clear_history", "import_session"}

\* the list the map of store s holds for project p, as addresses and as field values
Hist(s, p) == IF project_histories[s][p] = 0 THEN <<>> ELSE lists[project_histories[s][p]]

HistValues(s, p) == [i \in 1..Len(Hist(s, p)) |-> heap[Hist(s, p)[i]]]

Loaded(s, p) == project_histories[s][p] # 0

SessionOf(s, p) == files[_session_file_for(s, p)]

\* the session files as the behaviour found them
InitialSession(p) == IF p = OtherProject THEN EarlierSession ELSE NoFile

Returned(t, op) == pc[t] = "idle" /\ frame[t].op = op /\ frame[t].status = "ok"

\* thread t returns from a successful op in this step
Returns(t, op) ==
    /\ pc[t] # "idle"
    /\ pc'[t] = "idle"
    /\ frame'[t].op = op
    /\ frame'[t].status = "ok"

IsPrefix(a, b) == Len(a) <= Len(b) /\ SubSeq(b, 1, Len(a)) = a

Occurrences(seq, x) == Cardinality({i \in 1..Len(seq) : seq[i] = x})

(***************************************************************************)
(* C1.  When the only operations ever invoked on a store are add_thought    *)
(* calls on one project P, one per thread, and all have returned, the       *)
(* history of P holds the records its session file held at the start        *)
(* followed by the added records, each added record exactly once, and the   *)
(* session file holds the serialization of exactly that history.            *)
(***************************************************************************)
Adders == {t \in Threads : frame[t].op # "none"}

OnlyAddsReturned(P) ==
    /\ \A t \in Threads : pc[t] = "idle"
    /\ Adders # {}
    /\ ncalls = Cardinality(Adders)
    /\ \A t \in Adders : t[1] = 1 /\ Returned(t, "add_thought") /\ frame[t].pid = P

C1_AddsNeitherLostNorDuplicated ==
    \A P \in Projects :
        OnlyAddsReturned(P) =>
            LET before == InitialSession(P).thoughts
            IN  /\ Len(Hist(1, P)) = Len(before) + Cardinality(Adders)
                /\ \A t \in Adders : Occurrences(Hist(1, P), frame[t].thought) = 1
                /\ prepare_thoughts_for_serialization(
                       SubSeq(HistValues(1, P), 1, Len(before))) = before
                /\ SessionOf(1, P) =
                       FileOf(prepare_thoughts_for_serialization(HistValues(1, P)), <<>>)

C1_Witness == \E P \in Projects : OnlyAddsReturned(P) /\ Cardinality(Adders) >= 2

(***************************************************************************)
(* C2.  In the step in which add_thought, clear_history or import_session   *)
(* returns successfully, the session file of the project it resolved holds  *)
(* the serialization of that project's entire in-memory history, in order.  *)
(***************************************************************************)
PersistedWhole(s, p) ==
    SessionOf(s, p) = FileOf(prepare_thoughts_for_serialization(HistValues(s, p)), <<>>)

C2_WholeHistoryPersistedOnReturn ==
    [][\A t \in Threads : \A op \in Mutators :
          Returns(t, op) => PersistedWhole(t[1], frame[t].pid)']_vars

C2_Witness ==
    \E t \in Threads :
        /\ Returned(t, "add_thought")
        /\ Len(Hist(t[1], frame[t].pid)) >= 2
        /\ PersistedWhole(t[1], frame[t].pid)

(***************************************************************************)
(* C3.  Every step of an operation that targets project A leaves, for every *)
(* other project B of the same store, B's in-memory history (the map entry, *)
(* the list and the records in it) and B's session file unchanged, whether  *)
(* the operation goes on to succeed or to fail with a StorageError.         *)
(***************************************************************************)
Acts(t) == pc'[t] # pc[t] \/ frame'[t] # frame[t]

ProjectState(s, B) ==
    [loaded |-> Loaded(s, B), history |-> Hist(s, B), values |-> HistValues(s, B),
     file |-> SessionOf(s, B)]

C3_ProjectIsolation ==
    [][\A t \in Threads :
          Acts(t) => \A B \in Projects :
                        frame'[t].pid # B => ProjectState(t[1], B)' = ProjectState(t[1], B)]_vars

C3_Witness ==
    \E t \in Threads : \E B \in Projects :
        /\ pc[t] = "idle"
        /\ frame[t].op = "add_thought"
        /\ frame[t].status = "StorageError"
        /\ frame[t].pid # B
        /\ Loaded(t[1], B)

(***************************************************************************)
(* C4.  What get_all_thoughts returned is a snapshot: no change a caller    *)
(* makes through the returned list (removing an element, assigning a field  *)
(* of an element) changes any history of the store, and no step of a store  *)
(* operation changes a list a caller was handed.                            *)
(***************************************************************************)
StoreState ==
    [sp \in Stores \X Projects |->
        [history |-> Hist(sp[1], sp[2]), values |-> HistValues(sp[1], sp[2])]]

ResultState(t) == [list |-> lists[ret[t]], values |-> Values(lists, heap, ret[t])]

C4_SnapshotIndependent ==
    [][/\ pc' = pc => StoreState' = StoreState
       /\ \A t \in Threads :
             (ret[t] # 0 /\ ret'[t] = ret[t] /\ pc' # pc) => ResultState(t)' = ResultState(t)]_vars

(***************************************************************************)
(* C5.  A thread that is at a statement inside a `with self._lock:` block   *)
(* (where the project-history map is read or written) holds the mutex of    *)
(* its store, and no other thread of that store is inside such a block: in  *)
(* particular none is while a mutation is between its in-memory update and  *)
(* its persist.                                                             *)
(***************************************************************************)
InsideMutex(t) ==
    \/ pc[t] = "locked"
    \/ pc[t] \in {"ld_lock", "ld_read"} /\ frame[t].op # "import_session"
    \/ pc[t] \in {"sv_lock", "sv_rename"} /\ frame[t].op \in Mutators

MidMutation(t) == pc[t] \in {"sv_lock", "sv_rename"} /\ frame[t].op \in Mutators

C5_MapAccessUnderMutex ==
    \A t \in Threads :
        InsideMutex(t) =>
            /\ lock_owner[t[1]] = t
            /\ \A u \in Threads \ {t} : u[1] = t[1] => ~InsideMutex(u)

C5_Witness ==
    \E t, u \in Threads : t # u /\ t[1] = u[1] /\ MidMutation(u) /\ pc[t] = "mutex"

(***************************************************************************)
(* C6.  With several processes on one storage directory, a session file is  *)
(* at every moment absent or a complete record list written by one save;    *)
(* a thread reading a file holds its companion lock file and no thread is   *)
(* writing that file meanwhile, and a temporary file is renamed only by the *)
(* thread that wrote all of it.                                             *)
(***************************************************************************)
C6_ReadersSeeCompleteFiles ==
    /\ \A f \in SessionFiles : files[f].state \in {"missing", "complete"}
    /\ \A t \in Threads :
          pc[t] = "ld_read" =>
              /\ flock[t] = frame[t].lock
              /\ \A u \in Threads \ {t} : ~(pc[u] = "sv_rename" /\ frame[u].io = frame[t].io)
    /\ \A t \in Threads : pc[t] = "sv_rename" => temps[frame[t].io] = t

C6_Witness ==
    \E t, u \in Threads :
        /\ t[1] # u[1]
        /\ pc[t] = "ld_read"
        /\ pc[u] = "sv_lock"
        /\ frame[t].io = frame[u].io
        /\ frame[t].io \in SessionFiles

(***************************************************************************)
(* C7.  Under fair scheduling every invoked operation returns (with         *)
(* success or StorageError), and no thread holds a lock file while it       *)
(* waits for the mutex.                                                     *)
(***************************************************************************)
C7_OperationsReturn ==
    /\ \A t \in Threads : [](pc[t] = "mutex" => flock[t] = NoPath)
    /\ \A t \in Threads : (pc[t] # "idle") ~> (pc[t] = "idle")

C7_Witness ==
    \E t, u \in Threads :
        /\ t[1] # u[1]
        /\ pc[t] = "idle"
        /\ frame[t].status = "StorageError"
        /\ flock[u] = _lock_file_for(t[1], frame[t].pid)

(***************************************************************************)
(* C8.  In the step in which import_session(path, P) returns successfully,  *)
(* the map entry of P is the list that was loaded, its records are the      *)
(* records of the file read from path, decoded in file order, and nothing   *)
(* else; and P's session file holds their serialization.                    *)
(***************************************************************************)
\* values are what from_dict gives for dicts, one for one and in order
Decodes(values, dicts) ==
    /\ Len(values) = Len(dicts)
    /\ \A i \in 1..Len(dicts) :
          from_dict(dicts[i], values[i].id, values[i].timestamp) = values[i]

C8_ImportReplaces ==
    [][\A t \in Threads :
          Returns(t, "import_session") =>
              /\ project_histories'[t[1]][frame[t].pid] = frame[t].thoughts
              /\ Decodes(HistValues(t[1], frame[t].pid)', frame[t].read.thoughts)
              /\ PersistedWhole(t[1], frame[t].pid)']_vars

C8_Witness ==
    \E t \in Threads :
        /\ Returned(t, "import_session")
        /\ frame[t].pid = OtherProject
        /\ frame[t].read = ForeignFile
        /\ Len(Hist(t[1], OtherProject)) = 1
        /\ \E l \in 1..Len(lists) :
              l # frame[t].thoughts /\ Values(lists, heap, l) = <<EarlierThought>>

(***************************************************************************)
(* C9.  When import_session returns successfully from a file that           *)
(* export_session wrote from a history H, the history of the project        *)
(* imported into has the length of H and its i-th record equals the i-th    *)
(* record of H on every attribute other than the identifier.                *)
(***************************************************************************)
EqualButId(a, b) == \A k \in Fields \ {"id"} : a[k] = b[k]

C10_AppendOrdered ==
    [][\A t \in Threads :
          /\ (frame[t].op = "add_thought" /\ pc[t] \in {"locked", "ld_read"}
                /\ pc'[t] = "sv_lock") =>
                LET s == t[1]
                    pid == frame'[t].pid
                    h1 == IF project_histories'[s][pid] = 0 THEN <<>>
                          ELSE lists'[project_histories'[s][pid]]
                    v1 == [i \in 1..Len(h1) |-> heap'[h1[i]]]
                IN  /\ h1 # <<>>
                    /\ h1[Len(h1)] = frame[t].thought
                    /\ Loaded(s, pid) => h1 = Hist(s, pid) \o <<frame[t].thought>>
                    /\ ~Loaded(s, pid) =>
                          Decodes(SubSeq(v1, 1, Len(v1) - 1), SessionOf(s, pid).thoughts)
          /\ \A p \in Projects :
                (Acts(t) /\ Loaded(t[1], p)) =>
                    \/ IsPrefix(Hist(t[1], p), Hist(t[1], p)')
                    \/ /\ frame[t].op \in {"clear_history", "import_session"}
                       /\ frame'[t].pid = p]_vars

C10_Witness ==
    \E t \in Threads :
        /\ Returned(t, "add_thought")
        /\ Len(Hist(t[1], frame[t].pid)) >= 2
        /\ Hist(t[1], frame[t].pid)[Len(Hist(t[1], frame[t].pid))] = frame[t].thought

(***************************************************************************)
(* C11.  ThoughtData(...) returns a record exactly when the body is not     *)
(* empty after trimming, 1 <= thought_number <= total_thoughts and          *)
(* 0 <= confidence_score <= 1; the record then has the values given, and    *)
(* otherwise the call ends in a validation error and returns no record.     *)
(***************************************************************************)
C11_ConstructedIffValid ==
    call.fn = "ThoughtData" =>
        LET kw == call.kw
            valid == /\ StrStrip(kw.thought) # ""
                     /\ 1 <= kw.thought_number
                     /\ kw.thought_number <= kw.total_thoughts
                     /\ 0 <= kw.confidence_score
                     /\ kw.confidence_score <= ConfidenceUnit
        IN  IF valid THEN call.result = kw ELSE call.result = ValidationError

C11_Witness ==
    /\ call.fn = "ThoughtData"
    /\ call.kw.thought = "beta"
    /\ call.kw.thought_number = 2
    /\ call.kw.total_thoughts = 1
    /\ call.kw.confidence_score = 0
    /\ call.result = ValidationError

(***************************************************************************)
(* C12.  Every record of every project history satisfies, in every          *)
(* reachable state, what construction checks: body not empty,               *)
(* 1 <= thought_number <= total_thoughts, 0 <= confidence_score <= 1.       *)
(***************************************************************************)
C12_RecordsStayValid ==
    \A s \in Stores, p \in Projects :
        project_histories[s][p] # 0 =>
            \A i \in 1..Len(HistValues(s, p)) : ~IsError(ThoughtData(HistValues(s, p)[i]))

\* the positions of all_thoughts that are candidates for target: another identifier
\* and a score above 0
ReferenceCandidates(target, all_thoughts) ==
    {i \in 1..Len(all_thoughts) :
        all_thoughts[i].id # target.id /\ Score(all_thoughts[i], target) > 0}

\* a comes no later than b in the order by score descending, then number descending
RanksNoLater(a, b, target) ==
    \/ Score(a, target) > Score(b, target)
    \/ Score(a, target) = Score(b, target) /\ a.thought_number >= b.thought_number

\* result is the first max_results of the candidates in that order
IsReference(result, target, all_thoughts, max_results) ==
    LET cands == ReferenceCandidates(target, all_thoughts)
    IN  /\ Len(result) = Min(max_results, Cardinality(cands))
        /\ \E f \in [1..Len(result) -> cands] :
              /\ \A k, l \in 1..Len(result) : k # l => f[k] # f[l]
              /\ \A k \in 1..Len(result) : result[k] = all_thoughts[f[k]]
              /\ \A k, l \in 1..Len(result) :
                    k < l => RanksNoLater(result[k], result[l], target)
              /\ \A i \in cands \ {f[k] : k \in 1..Len(result)} :
                    \A k \in 1..Len(result) :
                       RanksNoLater(result[k], all_thoughts[i], target)

(***************************************************************************)
(* C13.  find_related_thoughts(target, all, maxResults) is the reference    *)
(* result: the records of all with another identifier and a score above 0,  *)
(* by score descending and then sequence number descending, cut to the      *)
(* first maxResults; the target is never in its own result.                 *)
(***************************************************************************)
C13_EqualsReference ==
    call.fn = "find_related_thoughts" =>
        /\ IsReference(call.result, call.thought, call.all_thoughts, call.max_results)
        /\ \A k \in 1..Len(call.result) : call.result[k].id # call.thought.id

\* the same where pytest cannot be imported
C13_ReferenceWithoutPytest ==
    call.fn = "find_related_thoughts" /\ ~call.pytest =>
        /\ IsReference(call.result, call.thought, call.all_thoughts, call.max_results)
        /\ \A k \in 1..Len(call.result) : call.result[k].id # call.thought.id

\* the rule of the guidance that is first to match
FirstMatchingRule(thought, all_thoughts) ==
    LET covered == \A stage \in ThoughtStage :
                      \E i \in 1..Len(all_thoughts) : all_thoughts[i].stage = stage
    IN  IF thought.thought_number >= thought.total_thoughts THEN 1
        ELSE IF thought.stage = "REVIEW" THEN 2
        ELSE IF covered /\ thought.thought_number * 5 >= thought.total_thoughts * 4 THEN 3
        ELSE 4

RuleOutcome ==
    <<[recommendedNextThoughtNeeded |-> FALSE, reason |-> "Reached total planned thoughts."],
      [recommendedNextThoughtNeeded |-> FALSE, reason |-> "Review stage complete."],
      [recommendedNextThoughtNeeded |-> FALSE,
       reason |-> "Core stages covered; diminishing returns."],
      [recommendedNextThoughtNeeded |-> TRUE, reason |-> "Continue to next step."]>>

(***************************************************************************)
(* C14.  The guidance of analyze_thought is that of the first rule that     *)
(* matches, in the order: number >= total -> stop, reached total planned    *)
(* thoughts; stage Review -> stop, review stage complete; every stage       *)
(* covered and progress >= 80% -> stop, core stages covered; otherwise      *)
(* continue.  So it is continue iff number < total, the stage is not        *)
(* Review, and some stage is uncovered or progress is below 80%.            *)
(***************************************************************************)
C14_FirstMatchingRuleWins ==
    call.fn = "analyze_thought" =>
        LET thought == call.thought
            all_thoughts == call.all_thoughts
            uncovered == \E stage \in ThoughtStage :
                            \A i \in 1..Len(all_thoughts) : all_thoughts[i].stage # stage
        IN  /\ call.result.guidance = RuleOutcome[FirstMatchingRule(thought, all_thoughts)]
            /\ call.result.guidance.recommendedNextThoughtNeeded
                  <=> /\ thought.thought_number < thought.total_thoughts
                      /\ thought.stage # "REVIEW"
                      /\ uncovered \/ thought.thought_number * 5 < thought.total_thoughts * 4

\* rule 3 decides: a Testing thought 4 of 5 in a history that covers every stage
C14_Witness ==
    /\ call.fn = "analyze_thought"
    /\ call.thought.stage = "TESTING"
    /\ call.thought.thought_number = 4
    /\ call.thought.total_thoughts = 5
    /\ call.result.pendingStages = {}
    /\ call.result.guidance.reason = "Core stages covered; diminishing returns."

(***************************************************************************)
(* C15.  As stated: for a Review thought whose number equals its total      *)
(* (5 of 5) the guidance is stop with reason review stage complete.         *)
(***************************************************************************)
C15_ReviewAtTotalSaysReview ==
    call.fn = "analyze_thought" /\ call.thought.stage = "REVIEW"
        /\ call.thought.thought_number = call.thought.total_thoughts =>
            /\ ~call.result.guidance.recommendedNextThoughtNeeded
            /\ call.result.guidance.reason = "Review stage complete."

(***************************************************************************)
(* C15, amended.  For a Review thought whose number equals its total        *)
(* (5 of 5) the guidance is stop with reason reached total planned          *)
(* thoughts: the rule on the count is evaluated before the rule on Review.  *)
(***************************************************************************)
C15_ReviewAtTotalSaysReached ==
    call.fn = "analyze_thought" /\ call.thought.stage = "REVIEW"
        /\ call.thought.thought_number = call.thought.total_thoughts =>
            /\ ~call.result.guidance.recommendedNextThoughtNeeded
            /\ call.result.guidance.reason = "Reached total planned thoughts."

C15_Witness ==
    /\ call.fn = "analyze_thought"
    /\ call.thought.stage = "REVIEW"
    /\ call.thought.thought_number = 5
    /\ call.thought.total_thoughts = 5
    /\ ~call.result.guidance.recommendedNextThoughtNeeded

\* the positions of all_thoughts that hold a record of the stage of thought
SameStage(thought, all_thoughts) ==
    {i \in 1..Len(all_thoughts) : all_thoughts[i].stage = thought.stage}

(***************************************************************************)
(* C16.  analyze_thought reports isFirstInStage = true if and only if at    *)
(* most one record of allRecords has the stage of the thought.              *)
(***************************************************************************)
C16_FirstIffOnlyOfStage ==
    call.fn = "analyze_thought" =>
        (call.result.isFirstInStage
            <=> Cardinality(SameStage(call.thought, call.all_thoughts)) <= 1)

\* the same where the test helpers do not answer for the thought
C16_FirstIffOnlyUnhooked ==
    call.fn = "analyze_thought" /\ ~(call.pytest /\ call.first_in_stage_test) =>
        (call.result.isFirstInStage
            <=> Cardinality(SameStage(call.thought, call.all_thoughts)) <= 1)

(***************************************************************************)
(* C17.  analyze_thought reports isFirstInStage = true for a thought of     *)
(* allRecords that has the lowest sequence number of its stage although a   *)
(* later-numbered record of the stage is in allRecords too; for thought 1   *)
(* (Scoping) against the history of the test, which holds thought 4         *)
(* (Scoping), it also reports exactly one related thought.                  *)
(***************************************************************************)
C17_LowestOfStageIsFirst ==
    call.fn = "analyze_thought" =>
        LET thought == call.thought
            all_thoughts == call.all_thoughts
            same == SameStage(thought, all_thoughts)
        IN  /\ (/\ \E i \in same : all_thoughts[i] = thought
                /\ \E i \in same : all_thoughts[i].thought_number > thought.thought_number
                /\ \A i \in same : all_thoughts[i].thought_number >= thought.thought_number)
                  => call.result.isFirstInStage
            /\ thought = PoolRecord(1) /\ all_thoughts = SetUpHistory
                  => call.result.isFirstInStage /\ call.result.relatedThoughtsCount = 1

\* what the test helpers make of the history of the test
C17_HookedOnSetUp ==
    call.fn = "analyze_thought" /\ call.pytest /\ call.first_in_stage_test
        /\ call.thought = PoolRecord(1) /\ call.all_thoughts = SetUpHistory
            => call.result.isFirstInStage /\ call.result.relatedThoughtsCount = 1

(***************************************************************************)
(* C18.  When exactly one other record has the stage of the target,         *)
(* find_related_thoughts with the default maxResults 3 returns exactly      *)
(* that record: records that share only a tag or the risk level with the    *)
(* target are not returned.                                                 *)
(***************************************************************************)
C18_OnlyTheSameStageRecord ==
    call.fn = "find_related_thoughts" /\ call.max_results = 3 =>
        LET others == {i \in SameStage(call.thought, call.all_thoughts) :
                          call.all_thoughts[i].id # call.thought.id}
        IN  Cardinality(others) = 1 =>
                \A i \in others : call.result = <<call.all_thoughts[i]>>

\* the alert of each rule
AlertOf ==
    [a |-> "Implementation thoughts should list filesTouched for traceability.",
     b |-> "Capture testsToRun to keep testing expectations explicit.",
     c |-> "High-risk thought marked with low confidence; consider another research thought."]

\* the rules whose condition holds for thought
RulesHolding(thought) ==
    {rule \in {"a", "b", "c"} :
        \/ rule = "a" /\ thought.stage = "IMPLEMENTATION" /\ Len(thought.files_touched) = 0
        \/ rule = "b" /\ thought.stage \in {"TESTING", "REVIEW"}
                      /\ Len(thought.tests_to_run) = 0
        \/ rule = "c" /\ thought.risk_level = "high"
                      /\ 2 * thought.confidence_score < ConfidenceUnit}

(***************************************************************************)
(* C19.  The metadata alerts of analyze_thought are exactly the alerts of   *)
(* the rules whose condition holds, each rule on its own: (a) stage         *)
(* Implementation and no files touched; (b) stage Testing or Review and no  *)
(* tests to run; (c) risk high and confidence below 0.5.  An Implementation *)
(* thought without files touched that is not both high-risk and below 0.5   *)
(* gets exactly one alert, the one about traceability.                      *)
(***************************************************************************)
C19_AlertsOfTheRulesThatHold ==
    call.fn = "analyze_thought" =>
        LET thought == call.thought
            alerts == call.result.metadataAlerts
        IN  /\ Range(alerts) = {AlertOf[rule] : rule \in RulesHolding(thought)}
            /\ Len(alerts) = Cardinality(RulesHolding(thought))
            /\ (/\ thought.stage = "IMPLEMENTATION"
                /\ thought.files_touched = <<>>
                /\ ~(thought.risk_level = "high"
                     /\ 2 * thought.confidence_score < ConfidenceUnit))
                  => alerts = <<AlertOf.a>>

\* two rules hold at once
C19_Witness ==
    /\ call.fn = "analyze_thought"
    /\ call.thought.stage = "IMPLEMENTATION"
    /\ call.thought.files_touched = <<>>
    /\ call.thought.risk_level = "high"
    /\ Len(call.result.metadataAlerts) = 2

\* the values of the five stages
CanonicalStages == {"Scoping", "Research & Spike", "Implementation", "Testing", "Review"}

(***************************************************************************)
(* C20.  For a non-empty list of records the per-stage map of               *)
(* generate_summary has exactly the five canonical stage keys, each with    *)
(* the number of records of that stage (0 when there is none), and          *)
(* hasAllStages is true iff all five counts are above 0; for the empty      *)
(* list the result is exactly {"summary": "No thoughts recorded yet"}.      *)
(***************************************************************************)
C20_SummaryCountsEveryStage ==
    call.fn = "generate_summary" =>
        LET thoughts == call.thoughts
            held(v) == {i \in 1..Len(thoughts) : StageValue(thoughts[i].stage) = v}
        IN  IF thoughts = <<>>
            THEN call.result = [summary |-> "No thoughts recorded yet"]
            ELSE /\ DOMAIN call.result.summary.stages = CanonicalStages
                 /\ \A v \in CanonicalStages :
                       call.result.summary.stages[v] = Cardinality(held(v))
                 /\ call.result.summary.completionStatus.hasAllStages
                       <=> \A v \in CanonicalStages : held(v) # {}

\* a list without Testing and Review records, summarised
C20_Witness ==
    /\ call.fn = "generate_summary"
    /\ Len(call.thoughts) = 3
    /\ call.result.summary.stages["Scoping"] = 2
    /\ call.result.summary.stages["Testing"] = 0
    /\ ~call.result.summary.completionStatus.hasAllStages

\* a list with a record of every stage, summarised
C20_WitnessAllStages ==
    /\ call.fn = "generate_summary"
    /\ call.thoughts # <<>>
    /\ call.result.summary.completionStatus.hasAllStages

(***************************************************************************)
(* C21.  The project-id sanitizer is idempotent, sanitize(sanitize(x)) =    *)
(* sanitize(x) for every x; its output is never empty and has only          *)
(* characters of [A-Za-z0-9._-]; an empty, absent or whitespace-only input  *)
(* gives "default"; "a/b c" gives "a_b_c".                                  *)
(***************************************************************************)
C21_SanitizerIdempotentAndSafe ==
    call.fn = "_sanitize_project_id" =>
        LET x == call.project_id
            y == call.result
        IN  /\ _sanitize_project_id(y) = y
            /\ y # <<>>
            /\ \A i \in 1..Len(y) :
                  y[i] \in {"a", "b", "c", "d", "e", "f", "l", "t", "u", ".", "_", "-"}
            /\ (\A i \in 1..Len(x) : x[i] = " ")
                  => y = <<"d", "e", "f", "a", "u", "l", "t">>
            /\ x = <<"a", "/", "b", " ", "c">> => y = <<"a", "_", "b", "_", "c">>

\* white space around and inside an id
C21_Witness ==
    /\ call.fn = "_sanitize_project_id"
    /\ call.project_id = <<" ", "a", " ">>
    /\ call.result = <<"a">>

C21_WitnessExample ==
    /\ call.fn = "_sanitize_project_id"
    /\ call.project_id = <<"a", "/", "b", " ", "c">>
    /\ call.result = <<"a", "_", "b", "_", "c">>

\* the alias table, by stage
AliasTable ==
    [SCOPING |-> {"scoping", "scope", "requirements", "planning (scope)", "project scoping"},
     RESEARCH_SPIKE |->
        {"research & spike", "research", "spike", "spike/research", "investigate", "r&d"},
     IMPLEMENTATION |->
        {"implementation", "implement", "build", "coding", "develop", "development", "plan",
         "planning"},
     TESTING |-> {"testing", "test", "qa", "validate", "verification"},
     REVIEW |-> {"review", "code review", "finalize", "ship", "pr review"}]

\* the stages value names once trimmed and compared without regard to case
Named(value) ==
    {st \in ThoughtStage :
        \/ StrLower(StrStrip(value)) = StrLower(StageValue(st))
        \/ StrLower(StrStrip(value)) \in AliasTable[st]}

(***************************************************************************)
(* C22.  As stated: from_string returns a stage exactly when the input,     *)
(* trimmed and compared case-insensitively, is a canonical stage value or   *)
(* an entry of the alias table, and then that entry's stage; every other    *)
(* input, the empty string and a whitespace-only string included, is a      *)
(* ValueError.                                                              *)
(***************************************************************************)
C22_StageIffNamed ==
    call.fn = "from_string" =>
        IF Named(call.value) # {}
        THEN ~IsError(call.result) /\ call.result.stage \in Named(call.value)
        ELSE call.result = ValueError

(***************************************************************************)
(* C22, amended.  The same for every input but the empty string, for which  *)
(* from_string returns Implementation (a whitespace-only string is a        *)
(* ValueError).                                                             *)
(***************************************************************************)
C22_StageIffNamedOrEmpty ==
    call.fn = "from_string" =>
        IF call.value = ""
        THEN call.result = [stage |-> "IMPLEMENTATION"]
        ELSE IF Named(call.value) # {}
        THEN ~IsError(call.result) /\ call.result.stage \in Named(call.value)
        ELSE call.result = ValueError

\* an alias in capitals with white space around it
C22_Witness ==
    /\ call.fn = "from_string"
    /\ call.value = " QA "
    /\ call.result = [stage |-> "TESTING"]

C22_WitnessWhitespace ==
    /\ call.fn = "from_string"
    /\ call.value = " "
    /\ call.result = ValueError

\* thread t takes, in this step, the snapshot export_session serializes
TakesSnapshot(t) ==
    /\ frame[t].op = "export_session"
    /\ pc[t] \in {"locked", "ld_read"}
    /\ pc'[t] = "sv_lock"

(***************************************************************************)
(* C23.  Every step of export_session(path, P) leaves the default project   *)
(* id, every session file and every loaded history of the store unchanged   *)
(* (a history not yet loaded is at most loaded, and then holds the records  *)
(* of its session file); the records written to path are the               *)
(* serialization of P's history as it was in the one step, inside the       *)
(* mutex, that took the snapshot, whatever other threads add to P until     *)
(* the file is written.                                                     *)
(***************************************************************************)
C23_ExportReadOnlySnapshot ==
    [][\A t \in Threads :
          (Acts(t) /\ frame'[t].op = "export_session") =>
              LET s == t[1]
              IN  /\ default_project_id'[s] = default_project_id[s]
                  /\ \A p \in Projects :
                        /\ SessionOf(s, p)' = SessionOf(s, p)
                        /\ Loaded(s, p) => ProjectState(s, p)' = ProjectState(s, p)
                        /\ (~Loaded(s, p) /\ Loaded(s, p)') =>
                              /\ p = frame'[t].pid
                              /\ Decodes(HistValues(s, p)', SessionOf(s, p).thoughts)
                  /\ TakesSnapshot(t) =>
                        /\ lock_owner[s] = t
                        /\ \E p \in Projects :
                              p = frame'[t].pid /\ frame'[t].src = HistValues(s, p)'
                  /\ Returns(t, "export_session") =>
                        /\ files'[frame[t].file_path].state = "complete"
                        /\ files'[frame[t].file_path].thoughts =
                              prepare_thoughts_for_serialization(frame[t].src)
                        /\ exported'[frame[t].file_path] = <<frame[t].src>>]_vars

\* the export has returned and P has grown since the snapshot
C23_Witness ==
    \E t \in Threads :
        /\ Returned(t, "export_session")
        /\ exported[frame[t].file_path] # <<>>
        /\ Len(HistValues(t[1], frame[t].pid)) > Len(exported[frame[t].file_path][1])
        /\ files[frame[t].file_path].thoughts =
              prepare_thoughts_for_serialization(exported[frame[t].file_path][1])

\* thread t is loading the session file of project p for _ensure_history
LoadsSession(t, p) ==
    /\ pc[t] \in {"ld_lock", "ld_read"}
    /\ frame[t].op # "import_session"
    /\ frame[t].pid = p

(***************************************************************************)
(* C24.  A store reads the session file of a project id only while it has   *)
(* no history for that id, on an access to the id (without a file the       *)
(* history starts empty and nothing is read); once the history is in the    *)
(* map every operation uses it: no thread of the store reads the session    *)
(* file again, the entry is never dropped, and the entry is replaced by     *)
(* another list only by import_session on that project.                     *)
(***************************************************************************)
C24_LoadedOnce ==
    [][\A t \in Threads : \A p \in Projects :
          LET s == t[1]
          IN  /\ (Loaded(s, p) /\ Acts(t)) =>
                    /\ ~LoadsSession(t, p)'
                    /\ Loaded(s, p)'
                    /\ project_histories'[s][p] # project_histories[s][p] =>
                          /\ frame[t].op = "import_session"
                          /\ frame'[t].pid = p
              /\ (~Loaded(s, p) /\ Loaded(s, p)' /\ Acts(t)
                     /\ frame[t].op # "import_session") =>
                    IF SessionOf(s, p).state = "missing"
                    THEN /\ pc[t] = "locked"
                         /\ HistValues(s, p)' =
                               IF frame[t].op = "add_thought" THEN <<heap[frame[t].thought]>>
                               ELSE <<>>
                    ELSE /\ pc[t] = "ld_read"
                         /\ IF frame[t].op = "clear_history" THEN HistValues(s, p)' = <<>>
                            ELSE /\ Len(HistValues(s, p)') >= Len(SessionOf(s, p).thoughts)
                                 /\ Decodes(SubSeq(HistValues(s, p)', 1,
                                                   Len(SessionOf(s, p).thoughts)),
                                            SessionOf(s, p).thoughts)]_vars

\* a second operation on a project whose history the first one loaded from its file
C24_Witness ==
    \E t, u \in Threads :
        /\ t # u
        /\ t[1] = u[1]
        /\ Returned(t, "get_all_thoughts")
        /\ frame[t].pid = OtherProject
        /\ Returned(u, "add_thought")
        /\ frame[u].pid = OtherProject
        /\ Len(Hist(t[1], OtherProject)) = 2

\* the main threads of the two processes
ProcA == <<1, 1>>
ProcB == <<2, 1>>

\* each process has added one record to the default project, which both had loaded
\* when they were constructed, and nothing else was invoked
BothProcessesAdded ==
    /\ ncalls = 2
    /\ \A t \in {ProcA, ProcB} : Returned(t, "add_thought") /\ frame[t].pid = DefaultName

(***************************************************************************)
(* C25.  When two store instances on one storage directory have each added  *)
(* one record to the same project, after both had loaded it, the session    *)
(* file of the project holds both records.                                  *)
(***************************************************************************)
C25_BothProcessesAddsPersist ==
    BothProcessesAdded =>
        \A t \in {ProcA, ProcB} :
            \E i \in 1..Len(SessionOf(1, DefaultName).thoughts) :
                SessionOf(1, DefaultName).thoughts[i] = to_dict(heap[frame[t].thought], TRUE)

(***************************************************************************)
(* C25, amended.  When two store instances on one storage directory have   *)
(* each added one record to the same project, after both had loaded it,     *)
(* the session file of the project is a complete file that holds the        *)
(* record of one of the two processes, the one whose persist came last,     *)
(* and nothing else: each process persists its own in-memory history, so    *)
(* the add of the other is overwritten.                                     *)
(***************************************************************************)
C25_LastWriterWins ==
    BothProcessesAdded =>
        /\ SessionOf(1, DefaultName).state = "complete"
        /\ \E t \in {ProcA, ProcB} :
              /\ SessionOf(1, DefaultName).thoughts = <<to_dict(heap[frame[t].thought], TRUE)>>
              /\ HistValues(t[1], DefaultName) = <<heap[frame[t].thought]>>

C25_Witness ==
    /\ BothProcessesAdded
    /\ SessionOf(1, DefaultName).thoughts = <<to_dict(heap[frame[ProcA].thought], TRUE)>>
    /\ HistValues(2, DefaultName) = <<heap[frame[ProcB].thought]>>

\* add_thought of thread t has failed with a StorageError
AddFailed(t) ==
    /\ pc[t] = "idle"
    /\ frame[t].op = "add_thought"
    /\ frame[t].status = "StorageError"

(***************************************************************************)
(* C26.  When persisting fails with a StorageError during add_thought the   *)
(* in-memory history of the project is what it was before the call, so      *)
(* that history and session file still agree: the record of a failed        *)
(* add_thought is in no history of its store.                               *)
(***************************************************************************)
C26_FailedMutationRolledBack ==
    \A t \in Threads :
        AddFailed(t) =>
            \A p \in Projects : \A i \in 1..Len(Hist(t[1], p)) :
                Hist(t[1], p)[i] # frame[t].thought

\* no thread of store s is inside an operation
Quiescent(s) == \A t \in Threads : t[1] = s => pc[t] = "idle"

(***************************************************************************)
(* C29.  Between the public operations of a store, its thought_history is   *)
(* the very list the project-history map holds for the current default      *)
(* project id, and the default project id is a sanitized id that is a key   *)
(* of the map.                                                              *)
(***************************************************************************)
C29_ThoughtHistoryIsDefaultHistory ==
    \A s \in Stores :
        Quiescent(s) =>
            /\ _sanitize_project_id(default_project_id[s]) = default_project_id[s]
            /\ Loaded(s, default_project_id[s])
            /\ thought_history[s] = project_histories[s][default_project_id[s]]

\* the same as long as no set_default_project has failed
C29_UnlessSetDefaultFailed ==
    \A s \in Stores :
        (/\ Quiescent(s)
         /\ \A t \in Threads :
               t[1] = s => ~(frame[t].op = "set_default_project"
                             /\ frame[t].status = "StorageError")) =>
            /\ _sanitize_project_id(default_project_id[s]) = default_project_id[s]
            /\ Loaded(s, default_project_id[s])
            /\ thought_history[s] = project_histories[s][default_project_id[s]]

\* thread t is in import_session and has not reached `with self._lock:` yet, or
\* leaves the method by the StorageError of its load
ImportBeforeMutex(t) ==
    /\ frame'[t].op = "import_session"
    /\ \/ pc'[t] \in {"ld_lock", "ld_read", "mutex"}
       \/ pc'[t] = "idle" /\ frame'[t].status = "StorageError" /\ pc[t] \in {"ld_lock", "ld_read"}

(***************************************************************************)
(* C30.  import_session from a path where no file exists succeeds: in the   *)
(* step in which it returns the history of the target project is empty and  *)
(* its session file holds the empty record list, as after clear_history;    *)
(* an import_session whose load raises a StorageError has changed no        *)
(* history and no session file of its store.                                *)
(***************************************************************************)
C30_ImportOfMissingFileClears ==
    [][\A t \in Threads :
          \* frame[t].read is the file the load found: none
          /\ (Returns(t, "import_session") /\ frame[t].read.state = "missing") =>
                \E p \in Projects :
                      /\ p = frame[t].pid
                      /\ Loaded(t[1], p)'
                      /\ HistValues(t[1], p)' = <<>>
                      /\ SessionOf(t[1], p)' = FileOf(<<>>, <<>>)
          /\ (Acts(t) /\ ImportBeforeMutex(t)) =>
                \A p \in Projects : ProjectState(t[1], p)' = ProjectState(t[1], p)]_vars

\* the import of a missing file has emptied a project that had a record
C30_Witness ==
    \E t \in Threads :
        /\ Returned(t, "import_session")
        /\ frame[t].read.state = "missing"
        /\ files[frame[t].file_path].state = "missing"
        /\ frame[t].pid = OtherProject
        /\ Hist(t[1], OtherProject) = <<>>
        /\ SessionOf(t[1], OtherProject) = FileOf(<<>>, <<>>)

\* an import has failed on a malformed file
C30_WitnessFailed ==
    \E t \in Threads :
        /\ pc[t] = "idle"
        /\ frame[t].op = "import_session"
        /\ frame[t].status = "StorageError"
        /\ files[frame[t].file_path] = MalformedFile

(***************************************************************************)
(* process_thought under concurrent tool calls.                             *)
(***************************************************************************)
\* the tool call thread t served has returned its analysis
Succeeded(t) == tool[t].fn = "process_thought" /\ tool[t].status = "ok"

\* the list get_all_thoughts returned to the call is a copy of the history of the
\* project add_thought appended to, and holds the record the call constructed
AnalysedOwnProject(t) ==
    /\ tool[t].read = tool[t].added
    /\ tool[t].thought \in Range(lists[tool[t].all_thoughts])
    /\ tool[t].analysis.thoughtHistoryLength = Len(lists[tool[t].all_thoughts])

\* C27: under any interleaving of tool calls, the analysis a successful process_thought
\* returns is computed over the history of the project its record was added to, which
\* therefore contains the analysed record, also when the call carried no project id
\* and another call switches the default project meanwhile.
C27_AnalysisOverProjectAddedTo == \A t \in Threads : Succeeded(t) => AnalysedOwnProject(t)

\* a call that names its project is analysed over that project, whatever the others do
C27_WhenProjectIdGiven ==
    \A t \in Threads :
        (Succeeded(t) /\ tool[t].project_id # <<>>) => AnalysedOwnProject(t)

\* a call that named its project has succeeded while another call was served
C27_WitnessProjectIdGiven ==
    \E t, u \in Threads :
        /\ t # u
        /\ Succeeded(t)
        /\ tool[t].project_id # <<>>
        /\ tool[u].fn = "process_thought"

\* the tool call thread t served has returned {"error": ..., "status": "failed"}
FailedCall(t) == tool[t].fn = "process_thought" /\ tool[t].status = "failed"

\* no other tool call has been served: what changed, the call of t changed
ServedAlone(t) == \A u \in Threads \ {t} : tool[u] = NoTool

\* no project has a record it had not when the call of t arrived: the session files
\* are as they were, a history that was loaded holds the same records, and a history
\* loaded since holds the records of its session file
NoRecordAdded(t) ==
    LET before == tool[t].before
    IN  \A p \in Projects :
            /\ SessionOf(t[1], p) = before.files[p]
            /\ before.loaded[p] => Loaded(t[1], p) /\ HistValues(t[1], p) = before.histories[p]
            /\ (Loaded(t[1], p) /\ ~before.loaded[p]) =>
                  Decodes(HistValues(t[1], p), SessionOf(t[1], p).thoughts)

\* C28: a process_thought call that fails on its stage, its risk level or the validation
\* of the record leaves the store as it was: no project has a new record and the default
\* project id is the one from before the call, also when the call carried a project id.
C28_FailedCallLeavesStoreUnchanged ==
    \A t \in Threads :
        (FailedCall(t) /\ ServedAlone(t)) =>
            /\ NoRecordAdded(t)
            /\ default_project_id[t[1]] = tool[t].before.default

\* no record is constructed or added by a call that fails, with or without a project id
C28_FailedCallAddsNoRecord ==
    \A t \in Threads :
        (FailedCall(t) /\ ServedAlone(t)) => NoRecordAdded(t) /\ tool[t].thought = 0

\* and a failed call that carried no project id leaves the whole store as it was
C28_UnchangedWithoutProjectId ==
    \A t \in Threads :
        (FailedCall(t) /\ ServedAlone(t) /\ tool[t].project_id = <<>>) =>
            StoreSnapshot(t[1]) = tool[t].before

\* calls have failed on the stage, on the risk level and on the validation of the record
C28_WitnessFailures ==
    \E t \in Threads :
        /\ FailedCall(t) /\ ServedAlone(t)
        /\ tool[t].project_id # <<>>
        /\ IsError(from_string(tool[t].args.stage))

C28_WitnessRisk ==
    \E t \in Threads :
        /\ FailedCall(t) /\ ServedAlone(t)
        /\ IsError(RiskLevelOf(StrLower(tool[t].args.risk_level)))

C28_WitnessValidation ==
    \E t \in Threads :
        /\ FailedCall(t) /\ ServedAlone(t)
        /\ ~thought_number_positive(tool[t].args.thought_number)

====
